---- MODULE Spec2Model ----
(***************************************************************************)
(* Workflow orchestration of the portfolio assistant: the analysis         *)
(* pipeline (PortfolioAgent), the conversation pipeline (ChatAgent) with   *)
(* its pending confirmations, and the relational persistence boundary.     *)
(*                                                                         *)
(* Both pipelines are StateGraph walks.  A stage receives the current      *)
(* state, returns a state-shaped update, and the executor merges every     *)
(* key of the returned update through the reducer declared for that key:   *)
(* operator.add for the Annotated list fields, overwrite for the others.   *)
(***************************************************************************)
EXTENDS Integers, Sequences, FiniteSets, TLC

(***************************************************************************)
(* Bounds of the model                                                     *)
(***************************************************************************)
MaxAssets == 2
MaxNewsPerAsset == 1
RoutingAssets == 3
MaxRequests == 2        \* chat turns and portfolio submissions admitted
MaxMessages == 1        \* messages added to one ChatSession object
MaxCalls == 2           \* calls of a decision function on one state

(***************************************************************************)
(* Program constants                                                       *)
(***************************************************************************)
VectorLimit == 5
ThresholdFactor == 2
RiskConfidencePct == 60
PlaceholderConfidencePct == 10
ttl_minutes == 60       \* default of every session storage

Unset == "<unset>"

(***************************************************************************)
(* Generic helpers                                                         *)
(***************************************************************************)
RECURSIVE SumTo(_, _)
SumTo(f, n) == IF n = 0 THEN 0 ELSE f[n] + SumTo(f, n - 1)

RECURSIVE Flatten(_)
Flatten(ss) == IF ss = <<>> THEN <<>> ELSE Head(ss) \o Flatten(Tail(ss))

Range(s) == {s[i] : i \in 1..Len(s)}

Permutations_(S) ==
    {p \in [1..Cardinality(S) -> S] : \A a \in S : \E i \in DOMAIN p : p[i] = a}

RECURSIVE Contains(_, _)
Contains(text, kw) ==
    IF Len(text) < Len(kw) THEN FALSE
    ELSE IF SubSeq(text, 1, Len(kw)) = kw THEN TRUE
    ELSE Contains(SubSeq(text, 2, Len(text)), kw)

UpperLetters ==
    <<"A", "B", "C", "D", "E", "F", "G", "H", "I", "J", "K", "L", "M",
      "N", "O", "P", "Q", "R", "S", "T", "U", "V", "W", "X", "Y", "Z">>
LowerLetters ==
    <<"a", "b", "c", "d", "e", "f", "g", "h", "i", "j", "k", "l", "m",
      "n", "o", "p", "q", "r", "s", "t", "u", "v", "w", "x", "y", "z">>

MapChar(ch, from, to) ==
    IF \E i \in DOMAIN from : from[i] = ch
    THEN to[CHOOSE i \in DOMAIN from : from[i] = ch]
    ELSE ch

RECURSIVE MapText(_, _, _)
MapText(text, from, to) ==
    IF Len(text) = 0 THEN ""
    ELSE MapChar(SubSeq(text, 1, 1), from, to)
             \o MapText(SubSeq(text, 2, Len(text)), from, to)

\* str.lower() and str.upper()
Lower(text) == MapText(text, UpperLetters, LowerLetters)
Upper(text) == MapText(text, LowerLetters, UpperLetters)

(***************************************************************************)
(* Assets (models/assets.py): a tagged union; the two shapes of the        *)
(* end-to-end scenario are enough to drive every stage.                    *)
(***************************************************************************)
Stock(ticker, shares) == [type |-> "stock", ident |-> ticker, quantity |-> shares]
Cash(currency, amount) == [type |-> "cash", ident |-> currency, quantity |-> amount]

AssetPool == {Stock("AAPL", 10), Cash("USD", 10000)}

Portfolios == UNION {[1..n -> AssetPool] : n \in 0..MaxAssets}

TaskTypes == {"digest"}

get_asset_key(asset) == asset.type \o ":" \o asset.ident

(***************************************************************************)
(* AgentState: the reducer declared for each field                         *)
(***************************************************************************)
AppendFields ==
    {"processed_assets", "raw_news", "classified_news", "analysis_results",
     "recommendations", "risk_alerts", "errors"}

ReplaceFields ==
    {"portfolio", "task_type", "current_step", "assets_to_analyze",
     "vector_context", "final_response"}

AgentStateFields == AppendFields \cup ReplaceFields

NoVectorContext == [present |-> FALSE, found_items |-> 0]

\* a reducer that overwrites where the declared one concatenates
Reduce_append_overwrite(old, new) == new

\* operator.add on lists
Reduce_append(old, new) == old \o new

Reduce_replace(old, new) == new

\* Field-by-field merge of a stage's returned update into the state.
Merge(s, upd) ==
    [f \in DOMAIN s |->
        IF f \in DOMAIN upd
        THEN IF f \in AppendFields THEN Reduce_append(s[f], upd[f])
                                   ELSE Reduce_replace(s[f], upd[f])
        ELSE s[f]]

(***************************************************************************)
(* State of the model                                                      *)
(***************************************************************************)
VARIABLES
    aStage,      \* analysis walk: next stage to run, "idle" or "END"
    aState,      \* analysis walk: the AgentState channels
    aTrail,      \* stages run so far in the current walk
    aContrib,    \* per append field, the value each update carried
    aWritten,    \* per replace field, the last value an update carried
    aClean,      \* no collaborator has failed so far in the current walk
    aResult,     \* value returned by analyze_portfolio
    aNews,       \* the NewsItem objects of the walk, by identity
    aInput       \* arguments of the latest analyze_portfolio call

VARIABLES
    pending_confirmations,  \* ChatAgent.pending_confirmations, by id
    nextConf,               \* number of confirmation ids issued so far
    session_storage,        \* the session store, for the one session used
    requests,               \* chat turns and submissions handled so far
    dbCalls,                \* calls made on the relational PortfolioService
    cStage,                 \* chat walk: next stage to run; "END" after the
                            \* last one, "replied" while a handler's result
                            \* is on its way to the client, "idle" otherwise
    cState,                 \* chat walk: the ChatAgentState
    cTrail,                 \* stages run in the current or latest walk
    cSession,               \* messages of the ChatSession object of the
                            \* turn, each by its role
    cFaults,                \* collaborators that failed in the current turn
    cReply,                 \* what process_message produced for the turn
    cConfirm,               \* the process_confirmation call being answered
                            \* and its result
    resolved                \* ids process_confirmation found pending so far

VARIABLES
    clock,       \* datetime.now(), in minutes since the process started
    storage,     \* per deployment, its session storage object
    client,      \* per deployment, the ChatSession object the caller holds
    observed,    \* the latest storage call and what each deployment got
    sessions,    \* InMemorySessionStorage.sessions shared by request threads
    threads,     \* per request thread, the storage call it is executing
    fnArgs,      \* arguments of the function called on its own
    fnCalls      \* what each call of that function returned, in order

avars == <<aStage, aState, aTrail, aContrib, aWritten, aClean, aResult, aNews,
          aInput>>

cvars == <<pending_confirmations, nextConf, session_storage, requests,
          dbCalls, cStage, cState, cTrail, cSession, cFaults, cReply,
          cConfirm, resolved>>

svars == <<clock, storage, client, observed>>

tvars == <<sessions, threads>>

fvars == <<fnArgs, fnCalls>>

vars == <<avars, cvars, svars, tvars, fvars>>

NoResult == [kind |-> "none"]

\* NewsItem objects are shared by reference between raw_news and
\* classified_news; the lists hold identities, aNews holds the objects.
NewsIds == (1..MaxAssets) \X (1..MaxNewsPerAsset)

NoNewsItem == [asset_related |-> Unset, sentiment |-> Unset]

NoNews == [id \in NewsIds |-> NoNewsItem]

\* a graph that restores the accumulators of the walk before (as one
\* compiled with a checkpointer would)
InitialChannels_carried(portfolio, task_type) ==
    [portfolio |-> portfolio, task_type |-> task_type,
     current_step |-> Unset, assets_to_analyze |-> <<>>,
     vector_context |-> NoVectorContext, final_response |-> Unset,
     processed_assets |-> <<>>, raw_news |-> <<>>, classified_news |-> <<>>,
     analysis_results |-> <<>>,
     recommendations |-> IF aResult.kind = "response"
                         THEN aResult.recommendations ELSE <<>>,
     risk_alerts |-> IF aResult.kind = "response"
                     THEN aResult.risk_alerts ELSE <<>>,
     errors |-> <<>>]

\* The channels of a fresh invocation: input keys written, list channels
\* empty, the remaining channels without a value.
InitialChannels(portfolio, task_type) ==
    [portfolio |-> portfolio, task_type |-> task_type,
     current_step |-> Unset, assets_to_analyze |-> <<>>,
     vector_context |-> NoVectorContext, final_response |-> Unset,
     processed_assets |-> <<>>, raw_news |-> <<>>, classified_news |-> <<>>,
     analysis_results |-> <<>>, recommendations |-> <<>>,
     risk_alerts |-> <<>>, errors |-> <<>>]

IdleChannels == InitialChannels(<<>>, "analyze")

AInit ==
    /\ aResult = NoResult
    /\ aStage = "idle"
    /\ aState = IdleChannels
    /\ aTrail = <<>>
    /\ aContrib = [f \in AppendFields |-> <<>>]
    /\ aWritten = [f \in ReplaceFields |-> IdleChannels[f]]
    /\ aClean = TRUE
    /\ aNews = NoNews
    /\ aInput = [portfolio |-> <<>>, task_type |-> "digest"]

(***************************************************************************)
(* Conversation side: the values a turn starts from and the state of a     *)
(* newly constructed ChatAgent                                             *)
(***************************************************************************)
NoRequest == [confirmation_id |-> "none"]

\* UIHints()
DefaultUIHints ==
    [show_portfolio_summary |-> FALSE, show_completion_button |-> FALSE]

\* process_message: the ChatAgentState handed to graph.invoke
initial_state(user_message) ==
    [user_message |-> user_message, intent |-> "unclear", entities |-> <<>>,
     response |-> "", ui_hints |-> DefaultUIHints,
     confirmation_request |-> NoRequest, show_form |-> FALSE,
     errors |-> <<>>]

IdleChatState == initial_state("")

NoReply ==
    [kind |-> "none", message |-> "", show_form |-> FALSE,
     confirmation_request |-> NoRequest, requires_confirmation |-> FALSE,
     cause |-> "none"]

NoConfirm ==
    [id |-> "none", confirmed |-> FALSE, again |-> FALSE, calls |-> 0,
     success |-> FALSE, message |-> "", portfolio_updated |-> FALSE]

NoPending == [c \in {} |-> NoRequest]

CInit ==
    /\ pending_confirmations = NoPending
    /\ nextConf = 0
    /\ session_storage = [present |-> FALSE, messages |-> <<>>]
    /\ requests = 0
    /\ dbCalls = <<>>
    /\ cStage = "idle"
    /\ cState = IdleChatState
    /\ cTrail = <<>>
    /\ cSession = <<>>
    /\ cFaults = {}
    /\ cReply = NoReply
    /\ cConfirm = NoConfirm
    /\ resolved = {}

(***************************************************************************)
(* Session storage side: three deployments of the same caller, one per     *)
(* backend, each with a store of its own                                   *)
(***************************************************************************)
Backends == {"ephemeral", "persistent", "hybrid"}

SessionIds == {"s1", "s2"}

NoEntries == [sid \in {} |-> 0]

\* InMemorySessionStorage.__init__
InMemorySessionStorage == [kind |-> "memory", sessions |-> NoEntries]

\* RedisSessionStorage.__init__ when the ping succeeds; keys are the keys
\* of the server under the chat_session: prefix
RedisSessionStorage == [kind |-> "redis", keys |-> NoEntries]

NotBuilt == [kind |-> "none"]

\* ChatSession(session_id=...): the default of last_activity is the
\* datetime.now() evaluated once, when the class is defined
ChatSession == [last_activity |-> 0, messages |-> 0]

NoCall == [op |-> "none", faulted |-> FALSE, outcome |-> "none",
           result |-> [b \in Backends |-> [raised |-> FALSE]]]

SInit ==
    /\ clock = 0
    /\ storage = [b \in Backends |->
                     CASE b = "ephemeral" -> InMemorySessionStorage
                       [] b = "persistent" -> RedisSessionStorage
                       [] b = "hybrid" -> NotBuilt]
    /\ client = [b \in Backends |-> [session |-> ChatSession,
                                     stored |-> FALSE]]
    /\ observed = NoCall

NoThread == [op |-> "none", pc |-> "idle", sid |-> "none", size |-> 0,
             expired |-> {}, result |-> "none"]

Threads == {"t1", "t2"}

TInit ==
    /\ sessions = NoEntries
    /\ threads = [t \in Threads |-> NoThread]

NoFunction == [fn |-> "none"]

FInit ==
    /\ fnArgs = NoFunction
    /\ fnCalls = <<>>

Init == AInit /\ CInit /\ SInit /\ TInit /\ FInit

(***************************************************************************)
(* Analysis pipeline: the tools behind the stages                          *)
(***************************************************************************)
\* _initialize_analysis_wrapped
initialize_analysis_wrapped(portfolio) ==
    [current_step |-> "initialize", assets_to_analyze |-> portfolio,
     processed_assets |-> <<>>, raw_news |-> <<>>, classified_news |-> <<>>,
     analysis_results |-> <<>>, recommendations |-> <<>>,
     risk_alerts |-> <<>>, errors |-> <<>>]

\* _search_vector_db_wrapped: one query per asset, hits[i] results for the
\* i-th; any exception discards everything found so far.
search_vector_db_wrapped(assets, hits, failed) ==
    IF failed
    THEN [present |-> TRUE, found_items |-> 0]
    ELSE [present |-> TRUE, found_items |-> SumTo(hits, Len(assets))]

\* the threshold compared strictly
should_search_news_strict(s) ==
    IF s.vector_context.found_items > Len(s.assets_to_analyze) * ThresholdFactor
    THEN "analyze" ELSE "search_news"

\* _should_search_news
should_search_news(s) ==
    LET vector_context == IF s.vector_context.present
                          THEN s.vector_context ELSE NoVectorContext
        found_items == vector_context.found_items
        threshold == Len(s.assets_to_analyze) * ThresholdFactor
    IN IF found_items >= threshold THEN "analyze" ELSE "search_news"

\* the table with "analyze" wired to classify_news
AnalysisEdge_classify(key) ==
    CASE key = "search_news" -> "search_news"
      [] key = "analyze" -> "classify_news"

\* _build_graph: the key-to-stage table of the conditional edge, and the
\* outgoing edge of every stage
AnalysisEdge(key) ==
    CASE key = "search_news" -> "search_news"
      [] key = "analyze" -> "analyze_assets"

\* the graph with search_news wired past classify_news
AnalysisGraph_unclassified(stage, s) ==
    CASE stage = "initialize" -> "search_vector_db"
      [] stage = "search_vector_db" -> AnalysisEdge(should_search_news(s))
      [] stage = "search_news" -> "analyze_assets"
      [] stage = "classify_news" -> "analyze_assets"
      [] stage = "analyze_assets" -> "create_digest"
      [] stage = "create_digest" -> "store_results"
      [] stage = "store_results" -> "END"

AnalysisGraph(stage, s) ==
    CASE stage = "initialize" -> "search_vector_db"
      [] stage = "search_vector_db" -> AnalysisEdge(should_search_news(s))
      [] stage = "search_news" -> "classify_news"
      [] stage = "classify_news" -> "analyze_assets"
      [] stage = "analyze_assets" -> "create_digest"
      [] stage = "create_digest" -> "store_results"
      [] stage = "store_results" -> "END"

\* _search_news_wrapped: found[i] items for the i-th asset (0 when the search
\* came back empty or the iteration failed before extending the list).
NewsOf(i, n) == [j \in 1..n |-> <<i, j>>]

search_news_wrapped(assets, found) ==
    Flatten([i \in 1..Len(assets) |-> NewsOf(i, found[i])])

TagNews(news, assets, found) ==
    [id \in NewsIds |->
        IF id[1] <= Len(assets) /\ id[2] <= found[id[1]]
        THEN [asset_related |-> get_asset_key(assets[id[1]]), sentiment |-> Unset]
        ELSE news[id]]

\* ClassificationTool.classify_news_item: labels the object in place; a
\* failed completion is caught inside the tool and leaves neutral defaults.
ClassOutcomes == {"labelled", "fallback"}

classify_news_item(item, outcome) ==
    [raised |-> FALSE,
     item |-> [item EXCEPT !.sentiment =
                  IF outcome = "labelled" THEN "positive" ELSE "neutral"]]

\* _classify_news_wrapped: for each asset in turn, the raw items carrying
\* its key.
ItemsFor(news_items, news, key) ==
    SelectSeq(news_items, LAMBDA id : news[id].asset_related = key)

classify_news_wrapped(news_items, assets, news) ==
    Flatten([i \in 1..Len(assets) |->
                ItemsFor(news_items, news, get_asset_key(assets[i]))])

\* Each item keeps the label of the last classification it went through.
RelabelNews(news, classified, last) ==
    [id \in NewsIds |->
        IF id \in Range(classified)
        THEN LET r == classify_news_item(news[id], last[id])
             IN IF r.raised THEN news[id] ELSE r.item
        ELSE news[id]]

\* AnalysisTool.analyze_asset: the completion's answer, or the placeholder
\* the tool substitutes when the completion call or its parsing fails.
AnalysisAnswers ==
    {[risk_assessment |-> "significant downside volatility",
      recommendations |-> <<"Hold", "Rebalance">>, confidence_score |-> 65],
     [risk_assessment |-> "significant downside volatility",
      recommendations |-> <<"Hold">>, confidence_score |-> 50]}

AnalysisFailed == [failed |-> TRUE]

AnalysisLLM == AnalysisAnswers \cup {AnalysisFailed}

\* a tool that lets the failure of the completion escape
analyze_asset_raising(asset, asset_news, llm) ==
    IF llm = AnalysisFailed
    THEN [raised |-> TRUE]
    ELSE [raised |-> FALSE,
          result |-> [asset_key |-> get_asset_key(asset),
                      news_items |-> asset_news,
                      risk_assessment |-> llm.risk_assessment,
                      recommendations |-> llm.recommendations,
                      confidence_score |-> llm.confidence_score]]

analyze_asset(asset, asset_news, llm) ==
    IF llm = AnalysisFailed
    THEN [raised |-> FALSE,
          result |-> [asset_key |-> get_asset_key(asset),
                      news_items |-> asset_news,
                      risk_assessment |->
                          "Unable to assess risk due to limited information.",
                      recommendations |-> <<"Monitor for more news updates">>,
                      confidence_score |-> PlaceholderConfidencePct]]
    ELSE [raised |-> FALSE,
          result |-> [asset_key |-> get_asset_key(asset),
                      news_items |-> asset_news,
                      risk_assessment |-> llm.risk_assessment,
                      recommendations |-> llm.recommendations,
                      confidence_score |-> llm.confidence_score]]

\* _analyze_assets_wrapped: an asset whose analysis raised is skipped.
RECURSIVE analyze_from(_, _, _, _, _)
analyze_from(i, assets, classified_news, news, llm) ==
    IF i > Len(assets) THEN <<>>
    ELSE LET asset_key == get_asset_key(assets[i])
             asset_news == ItemsFor(classified_news, news, asset_key)
             r == analyze_asset(assets[i], asset_news, llm[i])
         IN (IF r.raised THEN <<>> ELSE <<r.result>>)
            \o analyze_from(i + 1, assets, classified_news, news, llm)

analyze_assets_wrapped(assets, classified_news, news, llm) ==
    analyze_from(1, assets, classified_news, news, llm)

\* _create_digest_wrapped
RiskKeywords == {"high risk", "significant", "warning", "concern", "volatile"}

\* the keyword test alone, whatever the confidence
IsRiskAlert_any_confidence(result) ==
    \E keyword \in RiskKeywords :
       Contains(Lower(result.risk_assessment), keyword)

IsRiskAlert(result) ==
    /\ result.confidence_score > RiskConfidencePct
    /\ \E keyword \in RiskKeywords :
          Contains(Lower(result.risk_assessment), keyword)

RiskAlertText(result) == result.asset_key \o ": " \o result.risk_assessment

SummarizerOutcomes == {"ok", "fallback", "raise"}

DegradedResponse == "Analysis completed with errors. Please check logs."

ReportText(outcome) ==
    "# Portfolio Analysis Report\n## Executive Summary\n" \o
    (IF outcome = "ok" THEN "Portfolio digest."
     ELSE "Unable to generate portfolio digest due to processing error.")

all_recommendations(analysis_results) ==
    Flatten([i \in 1..Len(analysis_results) |->
                analysis_results[i].recommendations])

\* list(set(...)): the distinct texts, in an order the runtime picks
SetOrders(seq) == Permutations_(Range(seq))

create_digest_wrapped(analysis_results, outcome, order) ==
    IF outcome = "raise"
    THEN [final_response |-> DegradedResponse,
          recommendations |-> <<>>, risk_alerts |-> <<>>]
    ELSE [final_response |-> ReportText(outcome),
          recommendations |-> order,
          risk_alerts |->
              LET alerting == SelectSeq(analysis_results, IsRiskAlert)
              IN [i \in 1..Len(alerting) |-> RiskAlertText(alerting[i])]]

\* a storage failure left to escape the stage
store_results_wrapped_reraise(stored) == [raised |-> ~stored]

\* _store_results_wrapped: a storage failure is logged and swallowed.
store_results_wrapped(stored) == [raised |-> FALSE]

(***************************************************************************)
(* Graph executor: one stage of the walk.  upd is the dict the stage       *)
(* returned, raised says an exception escaped the stage; the next stage is *)
(* the one the outgoing edge selects on the merged state.                  *)
(***************************************************************************)
FailureResponse ==
    [kind |-> "response", success |-> FALSE,
     response |-> "Analysis failed due to system error",
     recommendations |-> <<>>, risk_alerts |-> <<>>,
     assets_analyzed |-> 0, errors |-> <<>>]

AStep(stage, upd, raised, failed) ==
    /\ UNCHANGED <<cvars, svars, tvars, fvars>>
    /\ aTrail' = Append(aTrail, stage)
    /\ aInput' = aInput
    /\ aClean' = (aClean /\ ~failed)
    /\ IF raised
       THEN /\ aStage' = "idle"
            /\ aResult' = FailureResponse
            /\ aState' = IdleChannels
            /\ aContrib' = [f \in AppendFields |-> <<>>]
            /\ aWritten' = [f \in ReplaceFields |-> IdleChannels[f]]
       ELSE /\ aState' = Merge(aState, upd)
            /\ aContrib' = [f \in AppendFields |->
                               IF f \in DOMAIN upd
                               THEN Append(aContrib[f], upd[f])
                               ELSE aContrib[f]]
            /\ aWritten' = [f \in ReplaceFields |->
                               IF f \in DOMAIN upd THEN upd[f] ELSE aWritten[f]]
            /\ aStage' = AnalysisGraph(stage, Merge(aState, upd))
            /\ aResult' = aResult

(***************************************************************************)
(* Analysis pipeline: analyze_portfolio and the stages of its walk         *)
(***************************************************************************)
NewsOutcomes == [items : 0..MaxNewsPerAsset, failed : BOOLEAN]

\* Results one vector query can return (limit=5)
HitCounts == {0, ThresholdFactor, VectorLimit}

Start(portfolios) ==
    /\ aStage = "idle"
    /\ \E portfolio \in portfolios, task_type \in TaskTypes :
          /\ aState' = InitialChannels(portfolio, task_type)
          /\ aInput' = [portfolio |-> portfolio, task_type |-> task_type]
    /\ aStage' = "initialize"
    /\ aTrail' = <<>>
    /\ aContrib' = [f \in AppendFields |-> <<>>]
    /\ aWritten' = [f \in ReplaceFields |-> aState'[f]]
    /\ aClean' = TRUE
    /\ aResult' = NoResult
    /\ aNews' = NoNews
    /\ UNCHANGED <<cvars, svars, tvars, fvars>>

StartAnalysis == Start(Portfolios)

\* _initialize_node
InitializeNode ==
    /\ aStage = "initialize"
    /\ LET result == initialize_analysis_wrapped(aState.portfolio)
           upd == [f \in DOMAIN aState |->
                      IF f \in DOMAIN result THEN result[f] ELSE aState[f]]
       IN AStep("initialize", upd, FALSE, FALSE)
    /\ UNCHANGED aNews

\* _search_vector_db_node, then the conditional edge
SearchVectorDb(counts) ==
    /\ aStage = "search_vector_db"
    /\ \E failed \in BOOLEAN,
          hits \in [1..Len(aState.assets_to_analyze) -> counts] :
          LET result == search_vector_db_wrapped(aState.assets_to_analyze,
                                                 hits, failed)
              upd == [aState EXCEPT !.vector_context = result]
          IN AStep("search_vector_db", upd, FALSE, failed)
    /\ UNCHANGED aNews

SearchVectorDbNode == SearchVectorDb(HitCounts)

\* _search_news_node
SearchNewsNode ==
    /\ aStage = "search_news"
    /\ \E out \in [1..Len(aState.assets_to_analyze) -> NewsOutcomes] :
          LET assets == aState.assets_to_analyze
              found == [i \in 1..Len(assets) |-> out[i].items]
              result == search_news_wrapped(assets, found)
              upd == [aState EXCEPT !.raw_news = result]
          IN /\ aNews' = TagNews(aNews, assets, found)
             /\ AStep("search_news", upd, FALSE,
                      \E i \in 1..Len(assets) : out[i].failed)

\* _classify_news_node
ClassifyNewsNode ==
    /\ aStage = "classify_news"
    /\ LET assets == aState.assets_to_analyze
           result == classify_news_wrapped(aState.raw_news, assets, aNews)
           upd == [aState EXCEPT !.classified_news = result]
           repeated == \E i, j \in 1..Len(result) : i # j /\ result[i] = result[j]
       IN \E last \in [Range(result) -> ClassOutcomes], earlier \in BOOLEAN :
             /\ earlier => repeated
             /\ aNews' = RelabelNews(aNews, result, last)
             /\ AStep("classify_news", upd, FALSE,
                      earlier \/ \E id \in Range(result) : last[id] = "fallback")

\* _analyze_assets_node
AnalyzeAssetsNode ==
    /\ aStage = "analyze_assets"
    /\ \E llm \in [1..Len(aState.assets_to_analyze) -> AnalysisLLM] :
          LET result == analyze_assets_wrapped(aState.assets_to_analyze,
                                               aState.classified_news, aNews, llm)
              upd == [aState EXCEPT !.analysis_results = result]
          IN AStep("analyze_assets", upd, FALSE,
                   \E i \in DOMAIN llm : llm[i] = AnalysisFailed)
    /\ UNCHANGED aNews

\* _create_digest_node
CreateDigestNode ==
    /\ aStage = "create_digest"
    /\ \E outcome \in SummarizerOutcomes,
          order \in SetOrders(all_recommendations(aState.analysis_results)) :
          LET result == create_digest_wrapped(aState.analysis_results,
                                              outcome, order)
              upd == [aState EXCEPT !.final_response = result.final_response,
                                    !.recommendations = result.recommendations,
                                    !.risk_alerts = result.risk_alerts]
          IN AStep("create_digest", upd, FALSE, outcome # "ok")
    /\ UNCHANGED aNews

\* _store_results_node
StoreResultsNode ==
    /\ aStage = "store_results"
    /\ \E stored \in BOOLEAN :
          LET r == store_results_wrapped(stored)
          IN AStep("store_results", aState, r.raised, ~stored)
    /\ UNCHANGED aNews

\* analyze_portfolio, after graph.invoke returned the final state; the
\* state of the walk is dropped once the response is built.
FinishAnalysis ==
    /\ aStage = "END"
    /\ aResult' =
          [kind |-> "response", success |-> TRUE,
           response |-> IF aState.final_response = Unset
                        THEN "Analysis completed" ELSE aState.final_response,
           recommendations |-> aState.recommendations,
           risk_alerts |-> aState.risk_alerts,
           assets_analyzed |-> Len(aState.analysis_results),
           errors |-> aState.errors]
    /\ aStage' = "idle"
    /\ aState' = IdleChannels
    /\ aTrail' = <<>>
    /\ aContrib' = [f \in AppendFields |-> <<>>]
    /\ aWritten' = [f \in ReplaceFields |-> IdleChannels[f]]
    /\ aNews' = NoNews
    /\ UNCHANGED <<aClean, aInput>>
    /\ UNCHANGED <<cvars, svars, tvars, fvars>>

ANext ==
    \/ StartAnalysis
    \/ InitializeNode
    \/ SearchVectorDbNode
    \/ SearchNewsNode
    \/ ClassifyNewsNode
    \/ AnalyzeAssetsNode
    \/ CreateDigestNode
    \/ StoreResultsNode
    \/ FinishAnalysis

SpecAnalysis == Init /\ [][ANext]_vars

(***************************************************************************)
(* The routing decision alone, on longer portfolios and every result count *)
(* a vector query can return                                               *)
(***************************************************************************)
RoutingPortfolios == UNION {[1..n -> AssetPool] : n \in 0..RoutingAssets}

StartRouting == Start(RoutingPortfolios)

SearchVectorDbAnyCount == SearchVectorDb(0..VectorLimit)

RNext ==
    \/ StartRouting
    \/ InitializeNode
    \/ SearchVectorDbAnyCount

SpecRouting == Init /\ [][RNext]_vars

(***************************************************************************)
(* Properties of the analysis pipeline                                     *)
(***************************************************************************)
IsPrefix(p, q) == Len(p) <= Len(q) /\ SubSeq(q, 1, Len(p)) = p

FullWalk ==
    <<"initialize", "search_vector_db", "search_news", "classify_news",
      "analyze_assets", "create_digest", "store_results">>

SkipWalk ==
    <<"initialize", "search_vector_db", "analyze_assets", "create_digest",
      "store_results">>

StageAfter(trail) ==
    IF trail = <<>> THEN "initialize"
    ELSE IF Len(trail) = 1 THEN "search_vector_db"
    ELSE IF trail[Len(trail)] = "store_results" THEN "END"
    ELSE IF IsPrefix(trail, FullWalk) /\ Len(trail) > 2
         THEN FullWalk[Len(trail) + 1]
    ELSE IF IsPrefix(trail, SkipWalk) /\ Len(trail) > 2
         THEN SkipWalk[Len(trail) + 1]
    ELSE "either"

\* C5: every analysis walk runs initialize, search_vector_db, then
\* search_news and classify_news together or neither, then analyze_assets,
\* create_digest, store_results, each at most once, and reaches the end
\* marker exactly after store_results.
C5_StageOrder ==
    aStage # "idle" =>
        /\ IsPrefix(aTrail, FullWalk) \/ IsPrefix(aTrail, SkipWalk)
        /\ (aStage = "END") <=> (aTrail \in {FullWalk, SkipWalk})
        /\ StageAfter(aTrail) # "either" => aStage = StageAfter(aTrail)
        /\ StageAfter(aTrail) = "either" =>
               aStage \in {"search_news", "analyze_assets"}
        /\ ("classify_news" \in Range(aTrail)) => ("search_news" \in Range(aTrail))

C5_Witness == aStage = "END" /\ aTrail = FullWalk

\* C6: after search_vector_db the walk goes to analyze_assets exactly when
\* found_items >= 2 x (number of assets), otherwise to search_news; a failed
\* vector search counts as found_items = 0.
C6_SkipThreshold ==
    Len(aTrail) = 2 =>
        LET N == Len(aState.assets_to_analyze)
            found_items == aState.vector_context.found_items
        IN /\ aState.vector_context.present
           /\ (aStage = "analyze_assets") <=> (found_items >= 2 * N)
           /\ (aStage = "search_news") <=> (found_items < 2 * N)
           /\ ~aClean => found_items = 0

C6_Witness ==
    /\ Len(aTrail) = 2
    /\ Len(aState.assets_to_analyze) = 3
    /\ aState.vector_context.found_items = 6
    /\ aStage = "analyze_assets"

C6_WitnessNoSkip ==
    /\ Len(aTrail) = 2
    /\ Len(aState.assets_to_analyze) = 3
    /\ aState.vector_context.found_items = 5
    /\ aStage = "search_news"

\* C7: whatever collaborators fail, analyze_portfolio returns a successful
\* result that carries a digest text, never the failure response.
DigestTexts == {ReportText("ok"), ReportText("fallback"), DegradedResponse}

C7_AlwaysDigest ==
    /\ aResult.kind = "response" =>
          /\ aResult.success
          /\ aResult.response \in DigestTexts
    /\ aStage = "idle" /\ aInput.portfolio # <<>> => aResult.kind = "response"

C7_Witness ==
    /\ aResult.kind = "response"
    /\ aResult.success
    /\ ~aClean
    /\ aResult.response = DegradedResponse

\* C8: when every collaborator succeeds, analyze_portfolio returns success,
\* assets_analyzed equal to the number of assets of the portfolio, a
\* non-empty response and an empty errors list.
C8_AssetsAnalyzed ==
    (aResult.kind = "response" /\ aClean) =>
        /\ aResult.success
        /\ aResult.assets_analyzed = Len(aInput.portfolio)
        /\ aResult.response # ""
        /\ aResult.errors = <<>>

\* C9: every append field equals the concatenation, in order, of what each
\* update carried for it; every other field holds the last value written.
C9_Reducers ==
    /\ \A f \in AppendFields : aState[f] = Flatten(aContrib[f])
    /\ \A f \in ReplaceFields : aState[f] = aWritten[f]

C9_Witness ==
    /\ aStage = "END"
    /\ Len(aContrib["analysis_results"]) = 5
    /\ Len(aState.analysis_results) > Len(aState.assets_to_analyze)
    /\ aState.final_response # Unset

(***************************************************************************)
(* Conversation pipeline (ChatAgent): texts, intents, entities             *)
(***************************************************************************)
ClarifyText ==
    "I couldn't understand the asset details. Could you please clarify?"
ConfirmPrompt == "Please confirm this change."
FormDoneText == "Portfolio action completed"
TroubleText == "I'm having trouble processing that. Could you try again?"
ApologyText ==
    "I encountered an error processing your request. Could you please rephrase?"
NotFoundText == "Confirmation request not found or expired"
CancelledText == "Action cancelled"
NoAssetText == "Could not create asset from provided information"
LLMReplyText == "Sure, what would you like to add?"

SessionId == "s1"

UserMessages == {"add 100 shares of AAPL", "That's it for AAPL"}

MutationIntents == {"add_asset", "remove_asset", "modify_asset"}

\* Intent values the classifier's structured output takes in the model
ClassifiedIntents ==
    MutationIntents \cup {"complete_portfolio", "general_question"}

\* EntityData after model_dump(exclude_none=True): only the fields that
\* are set.  Quantities are whole numbers standing for int and float
\* values alike.
EntityAAPL == [asset_type |-> "stock", ticker |-> "AAPL", shares |-> 100]
EntityNoType == [ticker |-> "AAPL", shares |-> 100]
EntityCash == [asset_type |-> "cash", amount |-> 1500]

EntityLists == {<<EntityAAPL>>, <<EntityNoType>>, <<EntityCash, EntityAAPL>>}

\* dict.get(key, default)
Get(entity, key, default) ==
    IF key \in DOMAIN entity THEN entity[key] ELSE default

\* f"{entities.get(key)}" of an int field
FormatInt(entity, key) ==
    IF key \in DOMAIN entity THEN ToString(entity[key]) ELSE "None"

\* f"{value}" of a float holding a whole number
FormatFloat(n) == ToString(n) \o ".0"

Pad3(n) ==
    IF n < 10 THEN "00" \o ToString(n)
    ELSE IF n < 100 THEN "0" \o ToString(n)
    ELSE ToString(n)

RECURSIVE Grouped(_)
Grouped(n) ==
    IF n < 1000 THEN ToString(n)
    ELSE Grouped(n \div 1000) \o "," \o Pad3(n % 1000)

\* f"{value:,.2f}" of a whole number
FormatMoney(n) == Grouped(n) \o ".00"

(***************************************************************************)
(* Confirmation descriptors                                                *)
(***************************************************************************)
NoDescriptor == [type |-> "none"]

intent_to_action(intent) ==
    CASE intent = "add_asset" -> "add_asset"
      [] intent = "remove_asset" -> "remove_asset"
      [] intent = "modify_asset" -> "update_asset"
      [] OTHER -> "add_asset"

build_asset_confirmation_float(entities, intent) ==
    IF "asset_type" \notin DOMAIN entities THEN NoDescriptor
    ELSE IF entities.asset_type = "stock"
    THEN [type |-> "stock",
          symbol |-> Get(entities, "ticker", "None"),
          quantity |-> Get(entities, "shares", 0),
          action |-> intent_to_action(intent),
          display_text |-> FormatFloat(Get(entities, "shares", 0))
                               \o " shares of "
                               \o Get(entities, "ticker", "None")]
    ELSE IF entities.asset_type = "cash"
    THEN [type |-> "cash",
          symbol |-> Get(entities, "currency", "USD"),
          quantity |-> Get(entities, "amount", 0),
          action |-> intent_to_action(intent),
          display_text |-> "$" \o FormatMoney(Get(entities, "amount", 0))
                               \o " " \o Get(entities, "currency", "USD")]
    ELSE NoDescriptor

\* _build_asset_confirmation; the crypto, real_estate and mortgage branches
\* have the same shape and take entities outside EntityLists
build_asset_confirmation(entities, intent) ==
    IF "asset_type" \notin DOMAIN entities THEN NoDescriptor
    ELSE IF entities.asset_type = "stock"
    THEN [type |-> "stock",
          symbol |-> Get(entities, "ticker", "None"),
          quantity |-> Get(entities, "shares", 0),
          action |-> intent_to_action(intent),
          display_text |-> FormatInt(entities, "shares")
                               \o " shares of "
                               \o Get(entities, "ticker", "None")]
    ELSE IF entities.asset_type = "cash"
    THEN [type |-> "cash",
          symbol |-> Get(entities, "currency", "USD"),
          quantity |-> Get(entities, "amount", 0),
          action |-> intent_to_action(intent),
          display_text |-> "$" \o FormatMoney(Get(entities, "amount", 0))
                               \o " " \o Get(entities, "currency", "USD")]
    ELSE NoDescriptor

RECURSIVE JoinTexts(_)
JoinTexts(assets) ==
    IF Len(assets) = 1 THEN assets[1].display_text
    ELSE assets[1].display_text \o ", " \o JoinTexts(Tail(assets))

\* _generate_confirmation_message_for_multiple
generate_confirmation_message_for_multiple(assets, action) ==
    CASE action = "add_asset" ->
            "Would you like to add " \o JoinTexts(assets)
                \o " to your portfolio?"
      [] action = "remove_asset" ->
            "Would you like to remove " \o JoinTexts(assets)
                \o " from your portfolio?"
      [] action = "update_asset" ->
            "Would you like to update " \o JoinTexts(assets)
                \o " in your portfolio?"
      [] OTHER -> "Would you like to proceed with this portfolio change?"

\* f"conf_{uuid.uuid4().hex[:8]}": the n-th identifier drawn; identifiers
\* drawn at different times are taken to be different
ConfId(n) == "conf_" \o ToString(n)

\* Identifiers a client can send: every one that can be issued, and one
\* that never is
ConfIds == {ConfId(n) : n \in 0..MaxRequests}

(***************************************************************************)
(* Conversation pipeline: routing                                          *)
(***************************************************************************)
HasRequest(s) == s.confirmation_request # NoRequest

\* the decision without the test for extracted entities
should_prepare_confirmation_unconditional(s) ==
    IF s.intent \in MutationIntents THEN "prepare_confirmation"
    ELSE IF s.intent = "complete_portfolio" THEN "update_portfolio"
    ELSE "generate_response"

\* _should_prepare_confirmation
should_prepare_confirmation(s) ==
    IF s.intent \in MutationIntents
    THEN IF s.entities # <<>> THEN "prepare_confirmation"
         ELSE "generate_response"
    ELSE IF s.intent = "complete_portfolio" THEN "update_portfolio"
    ELSE "generate_response"

CompletionKeywords ==
    {"done", "finish", "complete", "review", "that's all", "that's it",
     "show me", "see my"}

\* a decision that answers "end", a key the edge does not list, where
\* the walk is to stop
should_show_form_end(s) ==
    IF HasRequest(s) THEN "show_form"
    ELSE IF /\ s.entities # <<>>
            /\ \E keyword \in CompletionKeywords :
                  Contains(Lower(s.user_message), keyword)
    THEN "show_form"
    ELSE "end"

\* WorkflowUtils.should_show_form
should_show_form(s) ==
    IF HasRequest(s) THEN "show_form"
    ELSE IF /\ s.entities # <<>>
            /\ \E keyword \in CompletionKeywords :
                  Contains(Lower(s.user_message), keyword)
    THEN "show_form"
    ELSE "continue"

ShowFormEdge(key) ==
    CASE key = "show_form" -> "prepare_form"
      [] key = "continue" -> "END"

\* The topology of the earlier iteration of the graph
\* (classify -> extract -> update_portfolio -> form | response)
ChatGraph_previous(stage, s) ==
    CASE stage = "classify_intent" -> "extract_entities"
      [] stage = "extract_entities" -> "update_portfolio"
      [] stage = "prepare_confirmation" -> "generate_response"
      [] stage = "update_portfolio" ->
            IF should_show_form(s) = "show_form" THEN "prepare_form"
            ELSE "generate_response"
      [] stage = "generate_response" -> "END"
      [] stage = "prepare_form" -> "END"

\* _build_graph: the stage that follows stage when the state is s
ChatGraph(stage, s) ==
    CASE stage = "classify_intent" -> "extract_entities"
      [] stage = "extract_entities" -> should_prepare_confirmation(s)
      [] stage = "prepare_confirmation" -> "generate_response"
      [] stage = "update_portfolio" -> "generate_response"
      [] stage = "generate_response" -> ShowFormEdge(should_show_form(s))
      [] stage = "prepare_form" -> "END"

(***************************************************************************)
(* Conversation pipeline: the stages                                       *)
(***************************************************************************)
\* state.model_copy(update=...)
model_copy(s, update) ==
    [f \in DOMAIN s |-> IF f \in DOMAIN update THEN update[f] ELSE s[f]]

ClassifyOutcomes ==
    [failed : {FALSE}, intent : ClassifiedIntents]
        \cup {[failed |-> TRUE, intent |-> "unclear"]}

\* IntentClassifier.classify_intent
classify_intent(outcome) ==
    IF outcome.failed THEN "unclear" ELSE outcome.intent

ExtractOutcomes ==
    [failed : {FALSE}, entities : EntityLists \cup {<<>>}]
        \cup {[failed |-> TRUE, entities |-> <<>>]}

\* an extraction that runs whatever the intent is
extract_entities_any_intent(intent, outcome) ==
    IF outcome.failed THEN <<>> ELSE outcome.entities

\* EntityExtractor.extract_entities
extract_entities(intent, outcome) ==
    IF intent \notin MutationIntents THEN <<>>
    ELSE IF outcome.failed THEN <<>>
    ELSE outcome.entities

RECURSIVE Descriptors(_, _)
Descriptors(entities_list, intent) ==
    IF entities_list = <<>> THEN <<>>
    ELSE LET asset_conf == build_asset_confirmation(Head(entities_list), intent)
             rest == Descriptors(Tail(entities_list), intent)
         IN IF asset_conf = NoDescriptor THEN rest ELSE <<asset_conf>> \o rest

\* _prepare_confirmation_node: the update it returns and, when a
\* confirmation is prepared, the entry it stores under confirmation_id
prepare_confirmation(s, confirmation_id) ==
    LET asset_confirmations == Descriptors(s.entities, s.intent)
        action == intent_to_action(s.intent)
        confirmation_request ==
            [confirmation_id |-> confirmation_id,
             action |-> action,
             assets |-> asset_confirmations,
             message |-> generate_confirmation_message_for_multiple(
                             asset_confirmations, action)]
    IN IF s.entities = <<>> \/ asset_confirmations = <<>>
       THEN [stored |-> FALSE,
             update |-> [response |-> ClarifyText],
             entry |-> NoRequest]
       ELSE [stored |-> TRUE,
             update |-> [confirmation_request |-> confirmation_request,
                         ui_hints |-> [s.ui_hints EXCEPT
                                          !.show_portfolio_summary = TRUE]],
             entry |-> [request |-> confirmation_request,
                        session_id |-> SessionId,
                        entities |-> s.entities,
                        intent |-> s.intent]]

\* _update_portfolio_node
update_portfolio(s) ==
    [ui_hints |-> [s.ui_hints EXCEPT !.show_completion_button = TRUE,
                                     !.show_portfolio_summary = TRUE]]

GenerateOutcomes == {"ok", "failed", "escaped"}

\* _generate_response_node
generate_response(s, outcome) ==
    IF HasRequest(s)
    THEN [response |-> ConfirmPrompt, ui_hints |-> s.ui_hints]
    ELSE IF outcome = "failed" THEN [response |-> ApologyText]
    ELSE [response |-> LLMReplyText]

\* _prepare_form_node
prepare_form == [show_form |-> FALSE, response |-> FormDoneText]

(***************************************************************************)
(* Session store                                                           *)
(***************************************************************************)
StoreLookups == {"hit", "expired", "error"}

\* RedisSessionStorage.get: the store afterwards and the session returned,
\* a copy of the stored one.  A key past its TTL is gone; a failed read is
\* answered with None.
storage_get(store, lookup) ==
    IF ~store.present \/ lookup = "error"
    THEN [store |-> store, found |-> FALSE, messages |-> <<>>]
    ELSE IF lookup = "expired"
    THEN [store |-> [store EXCEPT !.present = FALSE, !.messages = <<>>],
          found |-> FALSE, messages |-> <<>>]
    ELSE [store |-> store, found |-> TRUE, messages |-> store.messages]

\* RedisSessionStorage.set, when it does not raise
storage_set(store, messages) ==
    [store EXCEPT !.present = TRUE, !.messages = messages]

\* RedisSessionStorage.delete; a failed delete is logged and dropped
storage_delete(store, deleted) ==
    IF deleted THEN [store EXCEPT !.present = FALSE, !.messages = <<>>]
    ELSE store

(***************************************************************************)
(* process_message                                                         *)
(***************************************************************************)
process_message_except_reraise(cause) ==
    [NoReply EXCEPT !.kind = "raised", !.cause = cause]

\* process_message: the except branch
process_message_except(cause) ==
    [NoReply EXCEPT !.kind = "returned", !.message = TroubleText,
                    !.cause = cause]

\* process_message up to graph.invoke: the session is read or created and
\* takes the user message
ProcessMessage ==
    /\ cStage = "idle"
    /\ requests < MaxRequests
    /\ \E user_message \in UserMessages, lookup \in StoreLookups :
          LET got == storage_get(session_storage, lookup)
          IN /\ lookup # "hit" => session_storage.present
             /\ session_storage' = got.store
             /\ cSession' = Append(got.messages, "user")
             /\ cState' = initial_state(user_message)
    /\ requests' = requests + 1
    /\ cStage' = "classify_intent"
    /\ cTrail' = <<>>
    /\ cFaults' = {}
    /\ cReply' = NoReply
    /\ UNCHANGED <<pending_confirmations, nextConf, dbCalls, cConfirm,
                   resolved>>
    /\ UNCHANGED <<avars, svars, tvars, fvars>>

\* graph.invoke: one stage.  update is what the stage returned; raised
\* says an exception escaped the stage, which ends process_message in its
\* except branch.
CStep(stage, update, raised, faults) ==
    /\ cStage = stage
    /\ cTrail' = Append(cTrail, stage)
    /\ cFaults' = cFaults \cup faults
    /\ IF raised
       THEN /\ cStage' = "replied"
            /\ cState' = IdleChatState
            /\ cSession' = <<>>
            /\ cReply' = process_message_except("graph")
       ELSE /\ cState' = model_copy(cState, update)
            /\ cStage' = ChatGraph(stage, model_copy(cState, update))
            /\ cSession' = cSession
            /\ cReply' = cReply
    /\ UNCHANGED <<session_storage, requests, dbCalls, cConfirm, resolved>>
    /\ UNCHANGED <<avars, svars, tvars, fvars>>

\* _classify_intent_node
ClassifyIntentNode ==
    /\ \E outcome \in ClassifyOutcomes :
          CStep("classify_intent",
                   [intent |-> classify_intent(outcome)], FALSE,
                   IF outcome.failed THEN {"classify"} ELSE {})
    /\ UNCHANGED <<pending_confirmations, nextConf>>

\* _extract_entities_node
ExtractEntitiesNode ==
    /\ \E outcome \in ExtractOutcomes :
          /\ cState.intent \notin MutationIntents => ~outcome.failed
          /\ CStep("extract_entities",
                   [entities |-> extract_entities(cState.intent, outcome)],
                   FALSE,
                   IF outcome.failed THEN {"extract"} ELSE {})
    /\ UNCHANGED <<pending_confirmations, nextConf>>

\* _prepare_confirmation_node
PrepareConfirmationNode ==
    LET confirmation_id == ConfId(nextConf + 1)
        r == prepare_confirmation(cState, confirmation_id)
    IN /\ CStep("prepare_confirmation", r.update, FALSE, {})
       /\ nextConf' = nextConf + 1
       /\ pending_confirmations' =
             IF r.stored
             THEN (confirmation_id :> r.entry) @@ pending_confirmations
             ELSE pending_confirmations

\* _update_portfolio_node
UpdatePortfolioNode ==
    /\ CStep("update_portfolio", update_portfolio(cState), FALSE, {})
    /\ UNCHANGED <<pending_confirmations, nextConf>>

\* _generate_response_node
GenerateResponseNode ==
    /\ \E outcome \in GenerateOutcomes :
          /\ HasRequest(cState) => outcome = "ok"
          /\ CStep("generate_response", generate_response(cState, outcome),
                   outcome = "escaped",
                   CASE outcome = "failed" -> {"generate"}
                     [] outcome = "escaped" -> {"escaped"}
                     [] OTHER -> {})
    /\ UNCHANGED <<pending_confirmations, nextConf>>

\* _prepare_form_node
PrepareFormNode ==
    /\ CStep("prepare_form", prepare_form, FALSE, {})
    /\ UNCHANGED <<pending_confirmations, nextConf>>

\* process_message after graph.invoke returned: the assistant message is
\* added to the session, the session is written, the reply is built; a
\* failed write lands in the except branch
FinishMessage ==
    /\ cStage = "END"
    /\ \E written \in BOOLEAN :
          LET messages == Append(cSession, "assistant")
          IN /\ IF written
                THEN /\ session_storage' = storage_set(session_storage,
                                                       messages)
                     /\ cReply' =
                           [kind |-> "returned",
                            message |-> cState.response,
                            show_form |-> cState.show_form,
                            confirmation_request |->
                                cState.confirmation_request,
                            requires_confirmation |-> HasRequest(cState),
                            cause |-> "none"]
                     /\ cFaults' = cFaults
                ELSE /\ session_storage' = session_storage
                     /\ cReply' = process_message_except("session_set")
                     /\ cFaults' = cFaults \cup {"session_set"}
    /\ cStage' = "replied"
    /\ cState' = IdleChatState
    /\ cSession' = <<>>
    /\ UNCHANGED <<pending_confirmations, nextConf, requests, dbCalls,
                   cTrail, cConfirm, resolved>>
    /\ UNCHANGED <<avars, svars, tvars, fvars>>

(***************************************************************************)
(* process_confirmation and the relational persistence boundary            *)
(***************************************************************************)
NoAsset == [type |-> "none", ident |-> "", quantity |-> 0]

\* _create_asset_from_entity
create_asset_from_entity(entity) ==
    IF "asset_type" \notin DOMAIN entity THEN NoAsset
    ELSE IF entity.asset_type = "stock"
    THEN IF /\ Get(entity, "ticker", "") # ""
            /\ Get(entity, "shares", 0) # 0
         THEN Stock(Upper(entity.ticker), entity.shares)
         ELSE NoAsset
    ELSE IF entity.asset_type = "cash"
    THEN IF Get(entity, "amount", 0) # 0
         THEN Cash(Get(entity, "currency", "USD"), entity.amount)
         ELSE NoAsset
    ELSE NoAsset

\* PortfolioService._prepare_asset_data
prepare_asset_data(asset) ==
    [symbol |-> asset.ident, asset_type |-> asset.type,
     quantity |-> asset.quantity]

\* What a PortfolioService call answers: the change is made, or the call
\* fails and reports it in its result
DbOutcomes == {"ok", "failed"}

ServiceResult(op, db) ==
    IF db = "ok"
    THEN [success |-> TRUE, message |-> op \o " done"]
    ELSE [success |-> FALSE, message |-> op \o " failed"]

\* the same with the last entity of the list as the primary one
execute_portfolio_action_last(action, entities, db, confirmation_id) ==
    LET asset == create_asset_from_entity(entities[Len(entities)])
        data == prepare_asset_data(asset)
    IN IF entities = <<>>
       THEN [calls |-> <<>>,
             result |-> [success |-> FALSE,
                         message |-> "No entity data provided"]]
       ELSE IF asset = NoAsset
       THEN [calls |-> <<>>,
             result |-> [success |-> FALSE, message |-> NoAssetText]]
       ELSE IF action = "add_asset"
       THEN [calls |-> <<[op |-> "add_asset", asset |-> asset,
                          confirmation_id |-> confirmation_id]>>,
             result |-> ServiceResult("add_asset", db)]
       ELSE IF action = "remove_asset"
       THEN [calls |-> <<[op |-> "remove_asset", symbol |-> data.symbol,
                          asset_type |-> data.asset_type,
                          confirmation_id |-> confirmation_id]>>,
             result |-> ServiceResult("remove_asset", db)]
       ELSE IF action = "update_asset"
       THEN [calls |-> <<[op |-> "update_asset", symbol |-> data.symbol,
                          asset_type |-> data.asset_type,
                          new_quantity |-> data.quantity,
                          confirmation_id |-> confirmation_id]>>,
             result |-> ServiceResult("update_asset", db)]
       ELSE [calls |-> <<>>,
             result |-> [success |-> FALSE,
                         message |-> "Unknown action: " \o action]]

\* _execute_portfolio_action: the PortfolioService calls it makes, each
\* tagged with the confirmation it serves, and the result it returns
execute_portfolio_action(action, entities, db, confirmation_id) ==
    LET asset == create_asset_from_entity(entities[1])
        data == prepare_asset_data(asset)
    IN IF entities = <<>>
       THEN [calls |-> <<>>,
             result |-> [success |-> FALSE,
                         message |-> "No entity data provided"]]
       ELSE IF asset = NoAsset
       THEN [calls |-> <<>>,
             result |-> [success |-> FALSE, message |-> NoAssetText]]
       ELSE IF action = "add_asset"
       THEN [calls |-> <<[op |-> "add_asset", asset |-> asset,
                          confirmation_id |-> confirmation_id]>>,
             result |-> ServiceResult("add_asset", db)]
       ELSE IF action = "remove_asset"
       THEN [calls |-> <<[op |-> "remove_asset", symbol |-> data.symbol,
                          asset_type |-> data.asset_type,
                          confirmation_id |-> confirmation_id]>>,
             result |-> ServiceResult("remove_asset", db)]
       ELSE IF action = "update_asset"
       THEN [calls |-> <<[op |-> "update_asset", symbol |-> data.symbol,
                          asset_type |-> data.asset_type,
                          new_quantity |-> data.quantity,
                          confirmation_id |-> confirmation_id]>>,
             result |-> ServiceResult("update_asset", db)]
       ELSE [calls |-> <<>>,
             result |-> [success |-> FALSE,
                         message |-> "Unknown action: " \o action]]

Without(pending, confirmation_id) ==
    [c \in DOMAIN pending \ {confirmation_id} |-> pending[c]]

delete_pending_on_accept(pending, confirmation_id, confirmed) ==
    IF confirmed THEN Without(pending, confirmation_id) ELSE pending

\* process_confirmation: del self.pending_confirmations[confirmation_id]
delete_pending(pending, confirmation_id, confirmed) ==
    Without(pending, confirmation_id)

\* process_confirmation: the pending set afterwards, the PortfolioService
\* calls made, and the PortfolioActionResult
process_confirmation(pending, confirmation_id, confirmed, db) ==
    IF confirmation_id \notin DOMAIN pending
    THEN [pending |-> pending, calls |-> <<>>,
          result |-> [success |-> FALSE, message |-> NotFoundText,
                      portfolio_updated |-> FALSE]]
    ELSE LET rest == delete_pending(pending, confirmation_id, confirmed)
             done == execute_portfolio_action(
                         pending[confirmation_id].request.action,
                         pending[confirmation_id].entities, db,
                         confirmation_id)
         IN IF ~confirmed
            THEN [pending |-> rest, calls |-> <<>>,
                  result |-> [success |-> TRUE, message |-> CancelledText,
                              portfolio_updated |-> FALSE]]
            ELSE [pending |-> rest, calls |-> done.calls,
                  result |-> [success |-> done.result.success,
                              message |-> done.result.message,
                              portfolio_updated |-> done.result.success]]

\* confirm_action -> ChatAgent.process_confirmation
ProcessConfirmation ==
    /\ cStage = "idle"
    /\ \E confirmation_id \in ConfIds, confirmed \in BOOLEAN,
          db \in DbOutcomes :
          LET r == process_confirmation(pending_confirmations,
                                        confirmation_id, confirmed, db)
          IN /\ r.calls = <<>> => db = "ok"
             /\ pending_confirmations' = r.pending
             /\ dbCalls' = dbCalls \o r.calls
             /\ cConfirm' = [id |-> confirmation_id,
                             confirmed |-> confirmed,
                             again |-> confirmation_id \in resolved,
                             calls |-> Len(r.calls),
                             success |-> r.result.success,
                             message |-> r.result.message,
                             portfolio_updated |-> r.result.portfolio_updated]
             /\ resolved' =
                   IF confirmation_id \in DOMAIN pending_confirmations
                   THEN resolved \cup {confirmation_id}
                   ELSE resolved
    /\ cStage' = "replied"
    /\ UNCHANGED <<nextConf, session_storage, requests, cState, cTrail,
                   cSession, cFaults, cReply>>
    /\ UNCHANGED <<avars, svars, tvars, fvars>>

\* send_message and confirm_action hand the result to the client
Respond ==
    /\ cStage = "replied"
    /\ cStage' = "idle"
    /\ cTrail' = <<>>
    /\ cFaults' = {}
    /\ cReply' = NoReply
    /\ cConfirm' = NoConfirm
    /\ UNCHANGED <<pending_confirmations, nextConf, session_storage,
                   requests, dbCalls, cState, cSession, resolved>>
    /\ UNCHANGED <<avars, svars, tvars, fvars>>

\* Portfolios a client submits.  The analysis a submission can also run is
\* a walk of the analysis pipeline; it touches none of the conversation
\* state and no PortfolioService method.
SubmittedPortfolios == {<<Stock("AAPL", 100)>>}

RECURSIVE CountOk(_)
CountOk(outcomes) ==
    IF outcomes = <<>> THEN 0
    ELSE (IF Head(outcomes) = "ok" THEN 1 ELSE 0) + CountOk(Tail(outcomes))

\* submit_portfolio: every submitted asset goes to add_asset, and the chat
\* session is cleared when at least one was saved
SubmitPortfolio ==
    /\ cStage = "idle"
    /\ requests < MaxRequests
    /\ \E portfolio \in SubmittedPortfolios, deleted \in BOOLEAN :
          \E outcomes \in [1..Len(portfolio) -> DbOutcomes] :
             /\ dbCalls' = dbCalls \o
                   [i \in 1..Len(portfolio) |->
                       [op |-> "add_asset", asset |-> portfolio[i],
                        confirmation_id |-> "none"]]
             /\ session_storage' =
                   IF CountOk(outcomes) > 0
                   THEN storage_delete(session_storage, deleted)
                   ELSE session_storage
    /\ requests' = requests + 1
    /\ UNCHANGED <<pending_confirmations, nextConf, cStage, cState, cTrail,
                   cSession, cFaults, cReply, cConfirm, resolved>>
    /\ UNCHANGED <<avars, svars, tvars, fvars>>

CNext ==
    \/ ProcessMessage
    \/ ClassifyIntentNode
    \/ ExtractEntitiesNode
    \/ PrepareConfirmationNode
    \/ UpdatePortfolioNode
    \/ GenerateResponseNode
    \/ PrepareFormNode
    \/ FinishMessage
    \/ ProcessConfirmation
    \/ SubmitPortfolio
    \/ Respond

SpecChat == Init /\ [][CNext]_vars

(***************************************************************************)
(* Properties of the conversation pipeline and of the confirmations        *)
(***************************************************************************)
Last(s) == s[Len(s)]

CallsFor(confirmation_id) ==
    {i \in DOMAIN dbCalls : dbCalls[i].confirmation_id = confirmation_id}

\* C1: a confirmation is single-use.  Once process_confirmation has found
\* an id pending - accepted or rejected, persistence succeeding or not -
\* the id is no longer pending, and every later process_confirmation for
\* it answers "not found" and makes no persistence call.
C1_SingleUse ==
    /\ resolved \cap DOMAIN pending_confirmations = {}
    /\ cConfirm.again =>
          /\ cConfirm.message = NotFoundText
          /\ ~cConfirm.success
          /\ ~cConfirm.portfolio_updated
          /\ cConfirm.calls = 0

\* A rejected confirmation is retried with confirmed = true and is not
\* found; nothing was ever persisted.
C1_Witness ==
    /\ cConfirm.again
    /\ cConfirm.confirmed
    /\ cConfirm.id \in resolved
    /\ nextConf > 0
    /\ dbCalls = <<>>

\* C2: relational persistence is never invoked during a process_message
\* walk; a persistence call is made only by process_confirmation, for an
\* id that is pending and resolved with confirmed = true; resolving with
\* confirmed = false makes no persistence call and reports
\* portfolio_updated = false.
C2_PersistOnlyOnAccept ==
    /\ [][dbCalls' # dbCalls =>
             /\ cStage = "idle" /\ cStage' = "replied"
             /\ cConfirm'.id \in DOMAIN pending_confirmations
             /\ cConfirm'.confirmed]_vars
    /\ []((cConfirm.id # "none" /\ ~cConfirm.confirmed) =>
             (cConfirm.calls = 0 /\ ~cConfirm.portfolio_updated))

\* The part of C2 that concerns the ChatAgent alone: the calls the agent
\* makes (those serving a confirmation) are made by process_confirmation
\* on a pending id with confirmed = true, never during a walk.
AgentPersistsOnlyOnAccept ==
    /\ [][(dbCalls' # dbCalls /\ Last(dbCalls').confirmation_id # "none") =>
             /\ cStage = "idle" /\ cStage' = "replied"
             /\ cConfirm'.id \in DOMAIN pending_confirmations
             /\ cConfirm'.id = Last(dbCalls').confirmation_id
             /\ cConfirm'.confirmed
             /\ Len(dbCalls') = Len(dbCalls) + 1]_vars
    /\ []((cConfirm.id # "none" /\ ~cConfirm.confirmed) =>
             (cConfirm.calls = 0 /\ ~cConfirm.portfolio_updated))

AppleTurn(entry) ==
    entry.intent = "add_asset" /\ entry.entities = <<EntityAAPL>>

AppleCall(confirmation_id) ==
    [op |-> "add_asset", asset |-> Stock("AAPL", 100),
     confirmation_id |-> confirmation_id]

\* C3: an add-asset turn with the single entity {stock, AAPL, 100} stores a
\* pending confirmation whose only descriptor reads "100 shares of AAPL";
\* accepting it calls add_asset exactly once, with the stock AAPL and
\* quantity 100, and no later call is made for that confirmation.
C3_EndToEnd ==
    /\ [](\A c \in DOMAIN pending_confirmations :
             AppleTurn(pending_confirmations[c]) =>
                /\ pending_confirmations[c].request.action = "add_asset"
                /\ Len(pending_confirmations[c].request.assets) = 1
                /\ pending_confirmations[c].request.assets[1].display_text
                      = "100 shares of AAPL"
                /\ pending_confirmations[c].request.assets[1].quantity = 100)
    /\ [][\A c \in DOMAIN pending_confirmations :
             (/\ AppleTurn(pending_confirmations[c])
              /\ cConfirm'.id = c
              /\ cConfirm'.confirmed
              /\ c \notin DOMAIN pending_confirmations') =>
                dbCalls' = Append(dbCalls, AppleCall(c))]_vars
    /\ [](\A c \in ConfIds : Cardinality(CallsFor(c)) <= 1)

\* The confirmation was accepted, add_asset was called for it, and a second
\* accept of the same id has just been turned away.
C3_Witness ==
    /\ cConfirm.again
    /\ cConfirm.confirmed
    /\ dbCalls = <<AppleCall(cConfirm.id)>>

\* C4: process_message returns a reply for every turn and never raises:
\* a failed classification gives intent "unclear", a failed extraction an
\* empty entity list, a failed generation the fixed apology, and an
\* exception escaping the walk or the session write the fixed
\* "having trouble" reply.
C4_AlwaysReplies ==
    /\ cReply.kind # "raised"
    /\ (cStage = "replied" /\ cTrail # <<>>) => cReply.kind = "returned"
    /\ ("classify" \in cFaults
           /\ cStage \notin {"replied", "classify_intent"})
          => cState.intent = "unclear"
    /\ ("extract" \in cFaults
           /\ cStage \notin {"replied", "classify_intent", "extract_entities"})
          => cState.entities = <<>>
    /\ ("generate" \in cFaults /\ cStage \in {"END", "prepare_form"}
           /\ Last(cTrail) = "generate_response")
          => cState.response = ApologyText
    /\ ("generate" \in cFaults /\ cStage = "replied"
           /\ "session_set" \notin cFaults
           /\ Last(cTrail) = "generate_response")
          => cReply.message = ApologyText
    /\ (cFaults \cap {"escaped", "session_set"} # {})
          => (cReply.kind = "returned" /\ cReply.message = TroubleText)

\* Classification, generation and the session write all failed in one turn
C4_Witness ==
    /\ cFaults = {"classify", "generate", "session_set"}
    /\ cReply.kind = "returned"
    /\ cReply.message = TroubleText

ChatWalks ==
    {<<"classify_intent", "extract_entities", "generate_response">>,
     <<"classify_intent", "extract_entities", "generate_response",
       "prepare_form">>,
     <<"classify_intent", "extract_entities", "prepare_confirmation",
       "generate_response">>,
     <<"classify_intent", "extract_entities", "prepare_confirmation",
       "generate_response", "prepare_form">>,
     <<"classify_intent", "extract_entities", "update_portfolio",
       "generate_response">>,
     <<"classify_intent", "extract_entities", "update_portfolio",
       "generate_response", "prepare_form">>}

\* C10: a conversation walk runs classify_intent, extract_entities, at
\* most one of prepare_confirmation and update_portfolio, generate_response
\* exactly once, prepare_form at most once, and then ends; no stage runs
\* twice and no other order is reachable.
C10_ChatStageOrder ==
    /\ \E w \in ChatWalks : IsPrefix(cTrail, w)
    /\ cStage \notin {"idle", "replied", "END"} =>
          \E w \in ChatWalks : IsPrefix(Append(cTrail, cStage), w)
    /\ cStage = "END" => cTrail \in ChatWalks

C10_Witness ==
    /\ cStage = "END"
    /\ cTrail = <<"classify_intent", "extract_entities",
                  "prepare_confirmation", "generate_response",
                  "prepare_form">>

(***************************************************************************)
(* Session storage (agents/session.py)                                     *)
(***************************************************************************)
\* The instants at which the clock is read, in minutes
Instants == {0, ttl_minutes, ttl_minutes + 1}

Put(entries, key, value) == (key :> value) @@ entries

Drop(entries, key) == [k \in DOMAIN entries \ {key} |-> entries[k]]

\* ChatSession.add_message
add_message(session, now) ==
    [session EXCEPT !.messages = @ + 1, !.last_activity = now]

NotFound == [found |-> FALSE]

Found(session) == [found |-> TRUE, session |-> session]

Returned == [raised |-> FALSE]

Raised == [raised |-> TRUE]

\* a session whose idle time has reached the TTL counts as expired
is_expired_inclusive(session, now) ==
    now - session.last_activity >= ttl_minutes

\* InMemorySessionStorage._is_expired
is_expired(session, now) == now - session.last_activity > ttl_minutes

\* InMemorySessionStorage.get
InMemory_get(self, session_id, now) ==
    IF session_id \in DOMAIN self.sessions
    THEN IF is_expired(self.sessions[session_id], now)
         THEN [storage |-> [self EXCEPT !.sessions = Drop(@, session_id)],
               result |-> NotFound]
         ELSE [storage |-> self,
               result |-> Found(self.sessions[session_id])]
    ELSE [storage |-> self, result |-> NotFound]

\* InMemorySessionStorage.set
InMemory_set(self, session_id, session) ==
    [storage |-> [self EXCEPT !.sessions = Put(@, session_id, session)],
     result |-> Returned]

\* InMemorySessionStorage.delete
InMemory_delete(self, session_id) ==
    [storage |-> [self EXCEPT !.sessions = Drop(@, session_id)],
     result |-> Returned]

\* InMemorySessionStorage.exists
InMemory_exists(self, session_id, now) ==
    [storage |-> self,
     result |-> [exists |-> /\ session_id \in DOMAIN self.sessions
                            /\ ~is_expired(self.sessions[session_id], now)]]

\* InMemorySessionStorage.cleanup_expired
InMemory_cleanup_expired(self, now) ==
    LET expired == {sid \in DOMAIN self.sessions :
                       is_expired(self.sessions[sid], now)}
    IN [storage |-> [self EXCEPT !.sessions =
                        [sid \in DOMAIN self.sessions \ expired |->
                            self.sessions[sid]]],
        result |-> [removed |-> Cardinality(expired)]]

\* datetime.isoformat and its parse by the ChatSession constructor
isoformat(t) == "T+" \o ToString(t)

fromisoformat(text) == CHOOSE t \in Instants : isoformat(t) = text

\* model_dump, isoformat of the datetimes, json.dumps
dumps(session) ==
    [last_activity |-> isoformat(session.last_activity),
     messages |-> session.messages]

\* json.loads, ChatSession(**session_dict)
loads(data) ==
    [last_activity |-> fromisoformat(data.last_activity),
     messages |-> data.messages]

\* a key set with SETEX is there until its time to live has elapsed
Alive(self, session_id, now) ==
    /\ session_id \in DOMAIN self.keys
    /\ now < self.keys[session_id].expires_at

\* RedisSessionStorage.get; fault: the client call raised
Redis_get(self, session_id, now, fault) ==
    IF fault \/ ~Alive(self, session_id, now)
    THEN [storage |-> self, result |-> NotFound]
    ELSE [storage |-> self,
          result |-> Found(loads(self.keys[session_id].data))]

\* RedisSessionStorage.set
Redis_set(self, session_id, session, now, fault) ==
    IF fault THEN [storage |-> self, result |-> Raised]
    ELSE [storage |->
             [self EXCEPT !.keys =
                 Put(@, session_id,
                     [data |-> dumps(session),
                      expires_at |-> now + ttl_minutes])],
          result |-> Returned]

\* RedisSessionStorage.delete
Redis_delete(self, session_id, fault) ==
    IF fault THEN [storage |-> self, result |-> Returned]
    ELSE [storage |-> [self EXCEPT !.keys = Drop(@, session_id)],
          result |-> Returned]

\* RedisSessionStorage.exists
Redis_exists(self, session_id, now, fault) ==
    [storage |-> self,
     result |-> [exists |-> ~fault /\ Alive(self, session_id, now)]]

\* RedisSessionStorage.cleanup_expired
Redis_cleanup_expired(self) ==
    [storage |-> self, result |-> [removed |-> 0]]

StorageOps == {"get", "set", "delete", "exists", "cleanup_expired"}

\* a call on one of the two concrete storages
Backend_call(op, self, session_id, session, now, fault) ==
    IF self.kind = "memory"
    THEN CASE op = "get" -> InMemory_get(self, session_id, now)
           [] op = "set" -> InMemory_set(self, session_id, session)
           [] op = "delete" -> InMemory_delete(self, session_id)
           [] op = "exists" -> InMemory_exists(self, session_id, now)
           [] op = "cleanup_expired" -> InMemory_cleanup_expired(self, now)
    ELSE CASE op = "get" -> Redis_get(self, session_id, now, fault)
           [] op = "set" -> Redis_set(self, session_id, session, now, fault)
           [] op = "delete" -> Redis_delete(self, session_id, fault)
           [] op = "exists" -> Redis_exists(self, session_id, now, fault)
           [] op = "cleanup_expired" -> Redis_cleanup_expired(self)

ConnectOutcomes == {"connected", "refused", "error"}

\* HybridSessionStorage.__init__
HybridSessionStorage(outcome) ==
    [kind |-> "hybrid",
     storage |-> IF outcome = "connected" THEN RedisSessionStorage
                 ELSE InMemorySessionStorage]

\* a hybrid storage that leaves a Redis delegate for a new in-memory one
\* when a call on it fails
Hybrid_call_fallback(op, self, session_id, session, now, fault) ==
    LET delegate == IF fault /\ self.storage.kind = "redis"
                    THEN InMemorySessionStorage ELSE self.storage
        r == Backend_call(op, delegate, session_id, session, now, fault)
    IN [storage |-> [self EXCEPT !.storage = r.storage],
        result |-> r.result]

\* HybridSessionStorage.get, set, delete, exists, cleanup_expired
Hybrid_call(op, self, session_id, session, now, fault) ==
    LET r == Backend_call(op, self.storage, session_id, session, now, fault)
    IN [storage |-> [self EXCEPT !.storage = r.storage],
        result |-> r.result]

Storage_call(op, self, session_id, session, now, fault) ==
    IF self.kind = "hybrid"
    THEN Hybrid_call(op, self, session_id, session, now, fault)
    ELSE Backend_call(op, self, session_id, session, now, fault)

\* the concrete storage behind a deployment's storage object
Delegate(self) == IF self.kind = "hybrid" THEN self.storage ELSE self

\* the session a concrete storage holds under session_id, as an object
Held(self, session_id) ==
    IF self.kind = "memory"
    THEN IF session_id \in DOMAIN self.sessions
         THEN Found(self.sessions[session_id]) ELSE NotFound
    ELSE IF session_id \in DOMAIN self.keys
         THEN Found(loads(self.keys[session_id].data)) ELSE NotFound

(***************************************************************************)
(* The caller of the storage, the same in every deployment.  It works on   *)
(* one session id and holds one ChatSession object: the one it last got,   *)
(* or a new one when the get returned None (process_message).              *)
(***************************************************************************)
\* the object the caller holds after the call
ClientAfter(op, self, before, r) ==
    LET memory == Delegate(self).kind = "memory"
    IN CASE op = "get" ->
               IF r.result.found
               THEN [session |-> r.result.session, stored |-> memory]
               ELSE [session |-> ChatSession, stored |-> FALSE]
         [] op = "set" ->
               [before EXCEPT !.stored = memory /\ ~r.result.raised]
         [] op = "delete" -> [before EXCEPT !.stored = FALSE]
         [] op = "cleanup_expired" ->
               [before EXCEPT !.stored =
                   @ /\ SessionId \in DOMAIN Delegate(r.storage).sessions]
         [] OTHER -> before

Built == storage["hybrid"] # NotBuilt

\* get_session_storage outside production: the hybrid storage is built
CreateHybrid ==
    /\ ~Built
    /\ \E outcome \in ConnectOutcomes :
          /\ storage' = [storage EXCEPT
                            !["hybrid"] = HybridSessionStorage(outcome)]
          /\ observed' = [op |-> "create", faulted |-> observed.faulted,
                          outcome |-> outcome,
                          result |-> [b \in Backends |-> Returned]]
    /\ UNCHANGED <<clock, client>>
    /\ UNCHANGED <<avars, cvars, tvars, fvars>>

\* one storage call, made in every deployment
StoreCall(op) ==
    /\ Built
    /\ \E fault \in BOOLEAN :
          LET r == [b \in Backends |->
                       Storage_call(op, storage[b], SessionId,
                                    client[b].session, clock, fault)]
          IN /\ storage' = [b \in Backends |-> r[b].storage]
             /\ client' = [b \in Backends |->
                              ClientAfter(op, storage[b], client[b], r[b])]
             /\ observed' = [op |-> op,
                             faulted |-> observed.faulted \/ fault,
                             outcome |-> "none",
                             result |-> [b \in Backends |-> r[b].result]]
    /\ UNCHANGED clock

StoreGet ==
    /\ StoreCall("get")
    /\ UNCHANGED <<avars, cvars, tvars, fvars>>

StoreSet ==
    /\ StoreCall("set")
    /\ UNCHANGED <<avars, cvars, tvars, fvars>>

StoreDelete ==
    /\ StoreCall("delete")
    /\ UNCHANGED <<avars, cvars, tvars, fvars>>

StoreExists ==
    /\ StoreCall("exists")
    /\ UNCHANGED <<avars, cvars, tvars, fvars>>

StoreCleanupExpired ==
    /\ StoreCall("cleanup_expired")
    /\ UNCHANGED <<avars, cvars, tvars, fvars>>

\* session.add_message on the object the caller holds; the in-memory
\* storage holds that very object once it was set or got
AddMessage ==
    /\ \A b \in Backends : client[b].session.messages < MaxMessages
    /\ client' = [b \in Backends |->
                     [client[b] EXCEPT
                         !.session = add_message(@, clock)]]
    /\ storage' =
          [b \in Backends |->
              IF client[b].stored
              THEN IF storage[b].kind = "hybrid"
                   THEN [storage[b] EXCEPT
                            !.storage.sessions[SessionId] =
                                add_message(@, clock)]
                   ELSE [storage[b] EXCEPT
                            !.sessions[SessionId] = add_message(@, clock)]
              ELSE storage[b]]
    /\ UNCHANGED <<clock, observed>>
    /\ UNCHANGED <<avars, cvars, tvars, fvars>>

\* time passes
Tick ==
    /\ \E now \in Instants : now > clock /\ clock' = now
    /\ UNCHANGED <<storage, client, observed>>
    /\ UNCHANGED <<avars, cvars, tvars, fvars>>

SNext ==
    \/ CreateHybrid
    \/ StoreGet
    \/ StoreSet
    \/ StoreDelete
    \/ StoreExists
    \/ StoreCleanupExpired
    \/ AddMessage
    \/ Tick

SpecStore == Init /\ [][SNext]_vars

(***************************************************************************)
(* The in-memory storage called from several request threads.  A thread    *)
(* can be switched out between two accesses to the sessions dict; a single *)
(* dict access is atomic.                                                   *)
(***************************************************************************)
Return(thread) == [NoThread EXCEPT !.result = "returned"]

Raise(thread, error) == [thread EXCEPT !.pc = "raised", !.result = error]

\* get: sessions.get and the expiry test on the object found
DoGet(t) ==
    /\ threads[t].pc = "idle"
    /\ \E session_id \in SessionIds :
          threads' = [threads EXCEPT ![t] =
             IF /\ session_id \in DOMAIN sessions
                /\ is_expired(sessions[session_id], clock)
             THEN [NoThread EXCEPT !.op = "get", !.sid = session_id,
                                   !.pc = "get_del"]
             ELSE Return(@)]
    /\ UNCHANGED sessions

\* get: del self.sessions[session_id]
DoGetDel(t) ==
    /\ threads[t].pc = "get_del"
    /\ IF threads[t].sid \in DOMAIN sessions
       THEN /\ sessions' = Drop(sessions, threads[t].sid)
            /\ threads' = [threads EXCEPT ![t] = Return(@)]
       ELSE /\ sessions' = sessions
            /\ threads' = [threads EXCEPT ![t] = Raise(@, "KeyError")]

\* set
DoSet(t) ==
    /\ threads[t].pc = "idle"
    /\ \E session_id \in SessionIds,
          session \in {ChatSession, add_message(ChatSession, clock)} :
          sessions' = Put(sessions, session_id, session)
    /\ threads' = [threads EXCEPT ![t] = Return(@)]

\* delete
DoDelete(t) ==
    /\ threads[t].pc = "idle"
    /\ \E session_id \in SessionIds :
          sessions' = Drop(sessions, session_id)
    /\ threads' = [threads EXCEPT ![t] = Return(@)]

\* exists: session_id in self.sessions
DoExists(t) ==
    /\ threads[t].pc = "idle"
    /\ \E session_id \in SessionIds :
          threads' = [threads EXCEPT ![t] =
             IF session_id \in DOMAIN sessions
             THEN [NoThread EXCEPT !.op = "exists", !.sid = session_id,
                                   !.pc = "exists_read"]
             ELSE Return(@)]
    /\ UNCHANGED sessions

\* exists: self.sessions[session_id] and the expiry test
DoExistsRead(t) ==
    /\ threads[t].pc = "exists_read"
    /\ threads' = [threads EXCEPT ![t] =
          IF threads[t].sid \in DOMAIN sessions THEN Return(@)
          ELSE Raise(@, "KeyError")]
    /\ UNCHANGED sessions

\* cleanup_expired: the iteration over self.sessions.items() starts
DoCleanup(t) ==
    /\ threads[t].pc = "idle"
    /\ threads' = [threads EXCEPT ![t] =
          IF sessions = NoEntries THEN Return(@)
          ELSE [NoThread EXCEPT !.op = "cleanup_expired",
                                !.pc = "cleanup_scan",
                                !.size = Cardinality(DOMAIN sessions)]]
    /\ UNCHANGED sessions

\* cleanup_expired: the iteration goes on; a dict whose size changed since
\* the iteration started makes the iterator raise
DoCleanupScan(t) ==
    /\ threads[t].pc = "cleanup_scan"
    /\ LET expired == {sid \in DOMAIN sessions :
                          is_expired(sessions[sid], clock)}
       IN threads' = [threads EXCEPT ![t] =
             IF Cardinality(DOMAIN sessions) # threads[t].size
             THEN Raise(@, "RuntimeError")
             ELSE IF expired = {} THEN Return(@)
             ELSE [@ EXCEPT !.pc = "cleanup_del", !.expired = expired]]
    /\ UNCHANGED sessions

\* cleanup_expired: del self.sessions[sid] for one expired sid
DoCleanupDel(t) ==
    /\ threads[t].pc = "cleanup_del"
    /\ \E sid \in threads[t].expired :
          IF sid \in DOMAIN sessions
          THEN /\ sessions' = Drop(sessions, sid)
               /\ threads' = [threads EXCEPT ![t] =
                     IF threads[t].expired = {sid} THEN Return(@)
                     ELSE [@ EXCEPT !.expired = @ \ {sid}]]
          ELSE /\ sessions' = sessions
               /\ threads' = [threads EXCEPT ![t] = Raise(@, "KeyError")]

\* time passes for the request threads
ThreadTick ==
    /\ \E now \in Instants : now > clock /\ clock' = now
    /\ UNCHANGED <<storage, client, observed, tvars>>
    /\ UNCHANGED <<avars, cvars, fvars>>

ThreadGet ==
    /\ \E t \in Threads : DoGet(t)
    /\ UNCHANGED <<avars, cvars, svars, fvars>>

ThreadGetDel ==
    /\ \E t \in Threads : DoGetDel(t)
    /\ UNCHANGED <<avars, cvars, svars, fvars>>

ThreadSet ==
    /\ \E t \in Threads : DoSet(t)
    /\ UNCHANGED <<avars, cvars, svars, fvars>>

ThreadDelete ==
    /\ \E t \in Threads : DoDelete(t)
    /\ UNCHANGED <<avars, cvars, svars, fvars>>

ThreadExists ==
    /\ \E t \in Threads : DoExists(t)
    /\ UNCHANGED <<avars, cvars, svars, fvars>>

ThreadExistsRead ==
    /\ \E t \in Threads : DoExistsRead(t)
    /\ UNCHANGED <<avars, cvars, svars, fvars>>

ThreadCleanup ==
    /\ \E t \in Threads : DoCleanup(t)
    /\ UNCHANGED <<avars, cvars, svars, fvars>>

ThreadCleanupScan ==
    /\ \E t \in Threads : DoCleanupScan(t)
    /\ UNCHANGED <<avars, cvars, svars, fvars>>

ThreadCleanupDel ==
    /\ \E t \in Threads : DoCleanupDel(t)
    /\ UNCHANGED <<avars, cvars, svars, fvars>>

TNext ==
    \/ ThreadGet
    \/ ThreadGetDel
    \/ ThreadSet
    \/ ThreadDelete
    \/ ThreadExists
    \/ ThreadExistsRead
    \/ ThreadCleanup
    \/ ThreadCleanupScan
    \/ ThreadCleanupDel
    \/ ThreadTick

SpecThreads == Init /\ [][TNext]_vars

(***************************************************************************)
(* Properties of the session storage                                       *)
(***************************************************************************)
\* C15: the three backends give the same externally visible results for
\* the same sequence of calls under the same TTL and clock; stated here
\* for sequences in which no call has failed.
C15_BackendsAgree ==
    ~observed.faulted =>
       \A b1, b2 \in Backends : observed.result[b1] = observed.result[b2]

Idle(self, now) == now - self.sessions[SessionId].last_activity

\* C16: in the in-memory backend a session idle for longer than the TTL
\* is never returned - get removes it and returns nothing, exists says
\* false - and a session idle for no longer than the TTL is returned by
\* get.
C16_LazyExpiry ==
    /\ [][(StoreGet /\ SessionId \in DOMAIN storage["ephemeral"].sessions)
             =>
             IF Idle(storage["ephemeral"], clock) > ttl_minutes
             THEN /\ ~observed'.result["ephemeral"].found
                  /\ SessionId \notin DOMAIN storage'["ephemeral"].sessions
             ELSE /\ observed'.result["ephemeral"].found
                  /\ observed'.result["ephemeral"].session =
                        storage["ephemeral"].sessions[SessionId]]_vars
    /\ [][(StoreExists /\ SessionId \in DOMAIN storage["ephemeral"].sessions
              /\ Idle(storage["ephemeral"], clock) > ttl_minutes)
             => ~observed'.result["ephemeral"].exists]_vars

\* A session is got at an idle time equal to the TTL and stays stored,
\* then is looked for one minute later and is gone
C16_Witness ==
    /\ clock = ttl_minutes + 1
    /\ observed.op = "get"
    /\ ~observed.result["ephemeral"].found
    /\ client["ephemeral"].session.messages = 0
    /\ storage["ephemeral"].sessions = NoEntries
    /\ Alive(storage["persistent"], SessionId, clock)

\* C17: every get and every set of a session sets the last-active-at of
\* the stored session to the current time.
C17_TouchedOnAccess ==
    [][(StoreGet \/ StoreSet) =>
          \A b \in Backends :
             LET held == Held(Delegate(storage'[b]), SessionId)
             IN held.found => held.session.last_activity = clock]_vars

\* the concrete backend of the same kind as the hybrid's delegate
Twin == IF storage["hybrid"].storage.kind = "redis" THEN "persistent"
        ELSE "ephemeral"

\* C19: the hybrid backend picks its delegate when it is constructed - the
\* Redis backend if that can be constructed, the in-memory one otherwise -
\* its construction never fails, and every later call is answered by that
\* same delegate.
C19_HybridDelegate ==
    /\ [][CreateHybrid =>
             /\ ~observed'.result["hybrid"].raised
             /\ storage'["hybrid"].storage =
                   IF observed'.outcome = "connected"
                   THEN RedisSessionStorage
                   ELSE InMemorySessionStorage]_vars
    /\ [][Built =>
             /\ storage'["hybrid"].kind = "hybrid"
             /\ storage'["hybrid"].storage.kind =
                   storage["hybrid"].storage.kind]_vars
    /\ [](Built =>
             /\ storage["hybrid"].storage = storage[Twin]
             /\ observed.result["hybrid"] = observed.result[Twin])

\* The hybrid was built on Redis, a set then failed for want of a
\* connection, and Redis is still the delegate
C19_Witness ==
    /\ Built
    /\ storage["hybrid"].storage.kind = "redis"
    /\ observed.op = "set"
    /\ observed.result["hybrid"].raised

\* C18: under every interleaving of the storage calls of concurrent
\* requests no call raises, and a call on one session id leaves the
\* session stored under any other id as it is.
C18_ConcurrentSafe ==
    /\ [](\A t \in Threads : threads[t].pc # "raised")
    /\ [][\A t \in Threads, sid \in SessionIds :
             (/\ threads'[t] # threads[t]
              /\ threads[t].op # "cleanup_expired"
              /\ threads'[t].op # "cleanup_expired"
              /\ threads[t].pc # "idle"
              /\ threads[t].sid # sid) =>
                /\ (sid \in DOMAIN sessions') = (sid \in DOMAIN sessions)
                /\ sid \in DOMAIN sessions => sessions'[sid] = sessions[sid]
          ]_vars

(***************************************************************************)
(* The two decisions of the conversation walk                              *)
(***************************************************************************)
\* PortfolioBuildingState(): the draft of a ChatSession.  No stage of the
\* walk and no handler of the router writes it, so every session carries
\* the defaults.
portfolio_state == [assets |-> <<>>, is_complete |-> FALSE]

MentionsCompletion(user_message) ==
    \E keyword \in CompletionKeywords : Contains(Lower(user_message), keyword)

\* C11: Decision A.  The stage that follows extract_entities is
\* prepare_confirmation when the intent is add, remove or modify and at
\* least one entity was extracted, update_portfolio when the intent is
\* complete_portfolio, and generate_response in every other case, a
\* mutation intent without entities included.
C11_DecisionA ==
    [][(cStage = "extract_entities" /\ cStage' # cStage) =>
          cStage' =
             IF cState'.intent \in MutationIntents
                   /\ Len(cState'.entities) >= 1
             THEN "prepare_confirmation"
             ELSE IF cState'.intent = "complete_portfolio"
             THEN "update_portfolio"
             ELSE "generate_response"]_vars

\* A mutation intent for which nothing was extracted goes straight to
\* generate_response
C11_Witness ==
    /\ cTrail = <<"classify_intent", "extract_entities">>
    /\ cStage = "generate_response"
    /\ cState.intent \in MutationIntents
    /\ cState.entities = <<>>

\* C12: Decision B.  The stage that follows generate_response is
\* prepare_form when a confirmation request exists, or the draft is marked
\* complete, or the message holds a completion keyword while the draft has
\* at least 2 assets; otherwise the walk ends.
C12_DecisionB ==
    [][(cStage = "generate_response"
           /\ cStage' \notin {"generate_response", "replied"}) =>
          cStage' =
             IF \/ HasRequest(cState')
                \/ portfolio_state.is_complete
                \/ /\ MentionsCompletion(cState'.user_message)
                   /\ Len(portfolio_state.assets) >= 2
             THEN "prepare_form"
             ELSE "END"]_vars

\* C13: when a confirmation request is present at generate_response, the
\* message of the reply delivered for the turn is the message composed for
\* that confirmation.
C13_ReplyIsPrompt ==
    (cStage = "replied" /\ cReply.kind = "returned"
        /\ HasRequest(cReply)) =>
       cReply.message = cReply.confirmation_request.message

(***************************************************************************)
(* The decision functions called on their own: the analysis skip decision, *)
(* Decision A and Decision B, each on a state a walk can hand to it        *)
(***************************************************************************)
\* AgentState after search_vector_db
SkipDecisionStates ==
    {[InitialChannels(portfolio, "digest") EXCEPT
         !.assets_to_analyze = portfolio, !.vector_context = vector_context] :
        portfolio \in Portfolios,
        vector_context \in
            {NoVectorContext} \cup
            [present : {TRUE}, found_items : 0..(MaxAssets * ThresholdFactor)]}

\* ChatAgentState after extract_entities
ExtractedStates ==
    {model_copy(initial_state(user_message),
                [intent |-> intent,
                 entities |-> extract_entities(
                                  intent,
                                  [failed |-> FALSE, entities |-> entities])]) :
        user_message \in UserMessages,
        intent \in ClassifiedIntents \cup {"unclear"},
        entities \in EntityLists \cup {<<>>}}

\* what the decisions of the conversation walk are called with: the state,
\* and beside it the pending confirmations of the agent and the messages
\* of the session of the turn
NoConfirmationYet(s) ==
    [fn |-> "none", state |-> s, pending |-> NoPending, session |-> 1]

AfterPrepareConfirmation(s) ==
    LET r == prepare_confirmation(s, ConfId(1))
    IN [fn |-> "none",
        state |-> model_copy(s, r.update),
        pending |-> IF r.stored THEN (ConfId(1) :> r.entry) @@ NoPending
                    ELSE NoPending,
        session |-> 1]

DecisionAArgs ==
    {[NoConfirmationYet(s) EXCEPT !.fn = "should_prepare_confirmation"] :
        s \in ExtractedStates}

DecisionBArgs ==
    {[(IF should_prepare_confirmation(s) = "prepare_confirmation"
       THEN AfterPrepareConfirmation(s)
       ELSE NoConfirmationYet(s)) EXCEPT !.fn = "should_show_form"] :
        s \in ExtractedStates}

SkipDecisionArgs ==
    {[fn |-> "should_search_news", state |-> s, pending |-> NoPending,
      session |-> 0] : s \in SkipDecisionStates}

\* a call returns a key and leaves its arguments in some condition
Decided(key, args) == [key |-> key, after |-> args]

\* _should_search_news as a call: it reads vector_context and
\* assets_to_analyze, logs, and annotates the trace
call_should_search_news(args) ==
    Decided(should_search_news(args.state), args)

\* _should_prepare_confirmation as a call: it reads intent and entities
call_should_prepare_confirmation(args) ==
    Decided(should_prepare_confirmation(args.state), args)

\* a decision that takes the confirmation request out of the state once
\* it has seen it
call_should_show_form_consuming(args) ==
    Decided(should_show_form(args.state),
            [args EXCEPT !.state.confirmation_request = NoRequest])

\* WorkflowUtils.should_show_form as a call: it reads confirmation_request,
\* entities and user_message, and annotates the trace
call_should_show_form(args) ==
    Decided(should_show_form(args.state), args)

DInit ==
    /\ AInit /\ CInit /\ SInit /\ TInit
    /\ fnArgs \in SkipDecisionArgs \cup DecisionAArgs \cup DecisionBArgs
    /\ fnCalls = <<>>

Decide(fn, r) ==
    /\ fnArgs.fn = fn
    /\ Len(fnCalls) < MaxCalls
    /\ fnCalls' = Append(fnCalls, r.key)
    /\ fnArgs' = r.after

CallShouldSearchNews ==
    /\ Decide("should_search_news", call_should_search_news(fnArgs))
    /\ UNCHANGED <<avars, cvars, svars, tvars>>

CallShouldPrepareConfirmation ==
    /\ Decide("should_prepare_confirmation",
              call_should_prepare_confirmation(fnArgs))
    /\ UNCHANGED <<avars, cvars, svars, tvars>>

CallShouldShowForm ==
    /\ Decide("should_show_form", call_should_show_form(fnArgs))
    /\ UNCHANGED <<avars, cvars, svars, tvars>>

DNext ==
    \/ CallShouldSearchNews
    \/ CallShouldPrepareConfirmation
    \/ CallShouldShowForm

SpecDecide == DInit /\ [][DNext]_vars

Field(key, value, absent) ==
    IF value = absent THEN NoEntries ELSE key :> value

EntityDicts ==
    {Field("type", type, "") @@ Field("ticker", ticker, "")
        @@ Field("shares", shares, -1) @@ Field("amount", amount, -1) :
        type \in {"", "stock", "cash"}, ticker \in {"", "AAPL"},
        shares \in {-1, 0, 100}, amount \in {-1, 0, 1500}}

\* a ChatMessage, with the numbers the pattern \b\d+(?:\.\d+)?\b finds in
\* its content
UserSaid(numbers) == [role |-> "user", numbers |-> numbers]

AssistantSaid(numbers) == [role |-> "assistant", numbers |-> numbers]

MessageLists ==
    {<<>>,
     <<UserSaid(<<>>)>>,
     <<UserSaid(<<50>>)>>,
     <<UserSaid(<<100>>)>>,
     <<UserSaid(<<50, 3>>), AssistantSaid(<<7>>)>>,
     <<UserSaid(<<9>>), AssistantSaid(<<>>), UserSaid(<<>>),
       AssistantSaid(<<7>>), UserSaid(<<>>)>>}

None == "None"

ResolveSessions ==
    [current_asset_type : {None, "stock", "crypto"}, messages : MessageLists]

\* bool(entities.get(key)): a missing key, 0 and "" are all false
Truthy(entities, key) ==
    /\ key \in DOMAIN entities
    /\ IF key \in {"shares", "amount"} THEN entities[key] # 0
       ELSE entities[key] # ""

\* session.messages[-4:]
LastFour(messages) ==
    IF Len(messages) <= 4 THEN messages
    ELSE SubSeq(messages, Len(messages) - 3, Len(messages))

RECURSIVE recent_amounts(_)
recent_amounts(messages) ==
    IF messages = <<>> THEN <<>>
    ELSE IF Head(messages).role = "assistant"
    THEN recent_amounts(Tail(messages))
    ELSE Head(messages).numbers \o recent_amounts(Tail(messages))

\* EntityExtractor.resolve_references (and ChatAgent._resolve_references,
\* which has the same body)
resolve_references(entities, session) ==
    LET typed == IF session.current_asset_type # None
                       /\ ~Truthy(entities, "type")
                 THEN Put(entities, "type", session.current_asset_type)
                 ELSE entities
        amounts == recent_amounts(LastFour(session.messages))
    IN IF /\ session.messages # <<>>
          /\ ~Truthy(typed, "amount")
          /\ ~Truthy(typed, "shares")
          /\ amounts # <<>>
       THEN IF Get(typed, "type", None) = "stock"
            THEN Put(typed, "shares", amounts[Len(amounts)])
            ELSE Put(typed, "amount", amounts[Len(amounts)])
       ELSE typed

XInit ==
    /\ AInit /\ CInit /\ SInit /\ TInit
    /\ fnArgs \in [fn : {"resolve_references"}, entities : EntityDicts,
                   session : ResolveSessions]
    /\ fnCalls = <<>>

ResolveReferences ==
    /\ fnArgs.fn = "resolve_references"
    /\ fnCalls = <<>>
    /\ fnCalls' = <<resolve_references(fnArgs.entities, fnArgs.session)>>
    /\ UNCHANGED fnArgs
    /\ UNCHANGED <<avars, cvars, svars, tvars>>

XNext == ResolveReferences

SpecResolve == XInit /\ [][XNext]_vars

\* C20: reference resolution only fills fields the incoming record does
\* not carry.  Every field of the incoming record comes out with the value
\* it went in with, and shares or amount is added only to a record that
\* came with neither.
C20_FillsUnsetOnly ==
    fnCalls # <<>> =>
       LET before == fnArgs.entities
           after == fnCalls[1]
       IN /\ \A key \in DOMAIN before : after[key] = before[key]
          /\ (DOMAIN after \ DOMAIN before) \cap {"shares", "amount"} # {}
                => DOMAIN before \cap {"shares", "amount"} = {}

\* the messages of a session that are not the assistant's
NonAssistant(messages) == SelectSeq(messages, LAMBDA msg : msg.role # "assistant")

\* the numbers mentioned in the last four of them, oldest first
MentionedLately(messages) ==
    recent_amounts(LastFour(NonAssistant(messages)))

\* C21: a record that comes with neither amount nor shares gets the most
\* recently mentioned number of the last four non-assistant messages of
\* the session, as shares when its type is stock and as amount otherwise.
C21_ResolvesFromRecent ==
    fnCalls # <<>> =>
       LET before == fnArgs.entities
           after == fnCalls[1]
           mentioned == MentionedLately(fnArgs.session.messages)
       IN (DOMAIN before \cap {"shares", "amount"} = {} /\ mentioned # <<>>) =>
             LET key == IF Get(after, "type", None) = "stock" THEN "shares"
                        ELSE "amount"
             IN /\ key \in DOMAIN after
                /\ after[key] = Last(mentioned)

(***************************************************************************)
(* The digest stage's tool on its own: _create_digest_wrapped on result    *)
(* lists of every shape                                                    *)
(***************************************************************************)
MaxResults == 2

ResultKeys == <<"AAPL", "CASH_USD", "MSFT", "BTC">>

\* what the analysis of one asset can say
DigestAnswers ==
    [risk_assessment : {"significant downside volatility",
                        "HIGH RISK of drawdown", "stable outlook"},
     recommendations : {<<"Hold">>, <<"Hold", "Rebalance">>},
     confidence_score : {50, 60, 65}]

\* AnalysisResult lists, one result per asset
ResultLists ==
    UNION {{[i \in 1..n |->
                [asset_key |-> ResultKeys[i],
                 risk_assessment |-> answers[i].risk_assessment,
                 recommendations |-> answers[i].recommendations,
                 confidence_score |-> answers[i].confidence_score]] :
            answers \in [1..n -> DigestAnswers]} : n \in 0..MaxResults}

GInit ==
    /\ AInit /\ CInit /\ SInit /\ TInit
    /\ MaxResults <= Len(ResultKeys)
    /\ fnArgs \in [fn : {"create_digest"}, analysis_results : ResultLists,
                   outcome : SummarizerOutcomes]
    /\ fnCalls = <<>>

CreateDigest ==
    /\ fnArgs.fn = "create_digest"
    /\ fnCalls = <<>>
    /\ \E order \in SetOrders(all_recommendations(fnArgs.analysis_results)) :
          fnCalls' = <<create_digest_wrapped(fnArgs.analysis_results,
                                             fnArgs.outcome, order)>>
    /\ UNCHANGED fnArgs
    /\ UNCHANGED <<avars, cvars, svars, tvars>>

GNext == CreateDigest

SpecDigest == GInit /\ [][GNext]_vars

C23_RecommendationsDistinct ==
    aResult.kind = "response" =>
       \A i, j \in DOMAIN aResult.recommendations :
          aResult.recommendations[i] = aResult.recommendations[j] => i = j

\* C24: the errors analyze_portfolio returns describe every failure a
\* stage recovered from; the list is empty only after a walk in which no
\* collaborator failed.
C24_ErrorsReported ==
    (aResult.kind = "response" /\ aResult.success /\ aResult.errors = <<>>)
       => aClean

\* C25: a turn with the complete-portfolio intent (the only one whose walk
\* runs update_portfolio) goes from generate_response on to prepare_form
\* and answers with show_form set.
C25_CompletionShowsForm ==
    (/\ cStage = "replied"
     /\ cReply.kind = "returned"
     /\ cReply.cause = "none"
     /\ \E i \in DOMAIN cTrail : cTrail[i] = "update_portfolio") =>
       /\ \E i \in DOMAIN cTrail : cTrail[i] = "prepare_form"
       /\ cReply.show_form

\* ChatAgent.get_session_portfolio: sessions of this iteration hold no
\* draft, the answer is None for every session
get_session_portfolio(session_id) == None

\* C26: once a turn that adds assets with complete data has been answered,
\* get_session_portfolio returns a portfolio that holds the assets of
\* that turn (and of the add-asset turns before it).
C26_DraftAccumulates ==
    (/\ cStage = "replied"
     /\ cReply.kind = "returned"
     /\ HasRequest(cReply)
     /\ cReply.confirmation_request.action = "add_asset") =>
       LET portfolio == get_session_portfolio(SessionId)
       IN /\ portfolio # None
          /\ Len(portfolio.assets) >= Len(cReply.confirmation_request.assets)

\* C27: a successful turn on a stored session leaves every stored message
\* in place and adds the user's message followed by the assistant's reply;
\* on a session that is not stored (new, deleted or expired) the log
\* starts with these two.
C27_LogAppendOnly ==
    [][(cStage = "END" /\ cStage' = "replied" /\ cReply'.cause = "none") =>
          session_storage'.messages =
             (IF session_storage.present THEN session_storage.messages
              ELSE <<>>) \o <<"user", "assistant">>]_vars

\* C28: nothing is carried from one analyze_portfolio call to the next on
\* the same agent: the call that follows an answered one starts with
\* every append accumulator empty, they are still empty after initialize,
\* and every risk alert of a response is about an asset of the portfolio
\* that call was given.
C28_NoCarryOver ==
    /\ [][(aStage = "idle" /\ aResult.kind = "response"
             /\ aStage' = "initialize") =>
              \A f \in AppendFields : aState'[f] = <<>>]_vars
    /\ [](aTrail = <<"initialize">> =>
              \A f \in AppendFields : aState[f] = <<>>)
    /\ [](aResult.kind = "response" =>
              \A i \in DOMAIN aResult.risk_alerts :
                 \E k \in DOMAIN aInput.portfolio :
                    Contains(aResult.risk_alerts[i],
                             get_asset_key(aInput.portfolio[k]) \o ": "))

\* an answered call that produced recommendations and a risk alert, with
\* the agent ready for the next call
C28_Witness ==
    /\ aStage = "idle"
    /\ aResult.kind = "response"
    /\ aResult.success
    /\ aResult.recommendations # <<>>
    /\ aResult.risk_alerts # <<>>

\* C29: in a turn whose intent is not add, remove or modify the entity
\* list stays empty whatever the message would yield, and no
\* PendingConfirmation is created or stored by any stage of that turn.
C29_NoExtractionNoPending ==
    /\ [](cState.intent \notin MutationIntents => cState.entities = <<>>)
    /\ [][(cStage \notin {"idle", "replied"}
             /\ cState.intent \notin MutationIntents
             /\ cState'.intent \notin MutationIntents) =>
              /\ pending_confirmations' = pending_confirmations
              /\ nextConf' = nextConf]_vars

C29_Witness ==
    /\ cStage = "END"
    /\ cState.intent = "complete_portfolio"
    /\ cState.user_message = "add 100 shares of AAPL"
    /\ cState.entities = <<>>
    /\ pending_confirmations = NoPending

\* C30: a turn in which prepare_confirmation ran and no entity gave a
\* confirmable descriptor (so the reply carries no confirmation request)
\* is answered with the request for clarification.
C30_ClarificationDelivered ==
    (/\ cStage = "replied"
     /\ cReply.kind = "returned"
     /\ cReply.cause = "none"
     /\ \E i \in DOMAIN cTrail : cTrail[i] = "prepare_confirmation"
     /\ ~HasRequest(cReply)) =>
       cReply.message = ClarifyText

\* C31: a turn whose walk ran prepare_form answers with the show-form flag
\* set (and with the review prompt, which is not the text that reports a
\* completed action).
C31_FormShown ==
    (/\ cStage = "replied"
     /\ cReply.kind = "returned"
     /\ cReply.cause = "none"
     /\ \E i \in DOMAIN cTrail : cTrail[i] = "prepare_form") =>
       /\ cReply.show_form
       /\ cReply.message # FormDoneText

\* C32: analyze_assets leaves one result per asset to analyze, in the
\* order of the assets; a failed analysis shows as a placeholder of
\* confidence 0.1 among them, and there is no placeholder when no
\* analysis failed.
C32_OneResultPerAsset ==
    [][(aStage = "analyze_assets" /\ aStage' = "create_digest") =>
          LET assets == aState.assets_to_analyze
              results == aState'.analysis_results
              placeholder ==
                 \E i \in DOMAIN results :
                    results[i].confidence_score = PlaceholderConfidencePct
          IN /\ Len(results) = Len(assets)
             /\ \A i \in DOMAIN results :
                   results[i].asset_key = get_asset_key(assets[i])
             /\ (aClean /\ ~aClean') => placeholder
             /\ (aClean /\ aClean') => ~placeholder]_vars

\* two assets analyzed, the first analysis failed and the second did not
C32_Witness ==
    /\ aStage = "create_digest"
    /\ Len(aState.assets_to_analyze) = 2
    /\ Len(aState.analysis_results) = 2
    /\ aState.analysis_results[1].confidence_score = PlaceholderConfidencePct
    /\ aState.analysis_results[2].confidence_score = 65

\* number of positions of seq that hold x
Occurrences(seq, x) == Cardinality({i \in DOMAIN seq : seq[i] = x})

\* C33: classify_news hands on every raw finding exactly once: the
\* classified findings hold each finding as often as the raw findings it
\* was given do, and nothing else.
C33_ClassifyKeepsFindings ==
    [][(aStage = "classify_news" /\ aStage' = "analyze_assets") =>
          /\ \A id \in Range(aState.raw_news) :
                Occurrences(aState'.classified_news, id) =
                   Occurrences(aState.raw_news, id)
          /\ Range(aState'.classified_news) \subseteq Range(aState.raw_news)]_vars

\* C34: store_results leaves the computed response as create_digest made
\* it: the text, the recommendations and the risk alerts of the state are
\* the same after the stage as before it, whether or not the storage call
\* failed, and the walk goes on to its end.
C34_StoreKeepsResponse ==
    [][aStage = "store_results" =>
          /\ aStage' = "END"
          /\ aState'.final_response = aState.final_response
          /\ aState'.recommendations = aState.recommendations
          /\ aState'.risk_alerts = aState.risk_alerts]_vars

\* _build_graph of the analysis pipeline: the keys of the table given to
\* add_conditional_edges for the skip decision
AnalysisEdgeKeys == [should_search_news |-> {"search_news", "analyze"}]

\* _build_graph of the conversation pipeline: the keys of the two tables
ChatEdgeKeys ==
    [should_prepare_confirmation |->
        {"prepare_confirmation", "update_portfolio", "generate_response"},
     should_show_form |-> {"show_form", "continue"}]

\* C35: whatever state a decision function is called on, the key it
\* returns is one its conditional edge lists, so the walk never stops on
\* an unrecognized key.
C35_KeysRecognized ==
    \A i \in DOMAIN fnCalls :
       fnCalls[i] \in (AnalysisEdgeKeys @@ ChatEdgeKeys)[fnArgs.fn]

\* Decision B ended the walk of a turn without confirmation request
C35_Witness ==
    /\ fnArgs.fn = "should_show_form"
    /\ ~HasRequest(fnArgs.state)
    /\ fnCalls = <<"continue", "continue">>

(***************************************************************************)
(* Two process_confirmation calls running side by side, one statement of   *)
(* each at a time                                                          *)
(***************************************************************************)
FailedText == "Failed to process confirmation"

NoOutcome == [success |-> FALSE, message |-> "", portfolio_updated |-> FALSE]

\* Users who can be signed in
UserIds == {"u1", "u2"}

NoConfirmCall == [pc |-> "idle", confirmation_id |-> "", confirmed |-> FALSE,
                  user_id |-> "",
                  pending |-> NoRequest, removed |-> FALSE, made |-> 0,
                  result |-> NoOutcome]

\* What _prepare_confirmation_node stores for a turn with these entities
\* and this intent
StoredFor(entities, intent) ==
    prepare_confirmation([IdleChatState EXCEPT !.entities = entities,
                                               !.intent = intent],
                         ConfId(1))

KInit ==
    /\ AInit /\ CInit /\ SInit /\ FInit
    /\ sessions = NoEntries
    /\ threads = [t \in Threads |-> NoConfirmCall]

\* metadata of the PortfolioConfirmationRequest: the session of the turn
\* and the user it belongs to
WithMetadata(entry, user_id) ==
    [entry EXCEPT !.request =
        @ @@ [metadata |-> [session_id |-> entry.session_id,
                            user_id |-> user_id]]]

\* A chat turn of some user reaches _prepare_confirmation_node, which
\* stores its entry, and process_message stores the session of the turn
StoreConfirmation ==
    /\ nextConf = 0
    /\ \E entities \in EntityLists, intent \in MutationIntents,
          user_id \in UserIds :
          /\ StoredFor(entities, intent).stored
          /\ pending_confirmations' =
                (ConfId(1) :> WithMetadata(StoredFor(entities, intent).entry,
                                           user_id))
                   @@ pending_confirmations
    /\ nextConf' = 1
    /\ session_storage' = storage_set(session_storage, <<"user", "assistant">>)
    /\ UNCHANGED <<requests, dbCalls, cStage, cState,
                   cTrail, cSession, cFaults, cReply, cConfirm, resolved>>
    /\ UNCHANGED <<avars, svars, tvars, fvars>>

\* clear_session
ClearSession ==
    /\ \E deleted \in BOOLEAN :
          session_storage' = storage_delete(session_storage, deleted)
    /\ UNCHANGED <<pending_confirmations, nextConf, requests, dbCalls, cStage,
                   cState, cTrail, cSession, cFaults, cReply, cConfirm,
                   resolved>>
    /\ UNCHANGED <<avars, svars, tvars, fvars>>

\* a lookup that answers only the user the confirmation was prepared for
get_pending_owner(pending, confirmation_id, user_id) ==
    IF /\ confirmation_id \in DOMAIN pending
       /\ pending[confirmation_id].request.metadata.user_id = user_id
    THEN [found |-> TRUE, entry |-> pending[confirmation_id]]
    ELSE [found |-> FALSE, entry |-> NoRequest]

\* process_confirmation, called for user_id:
\* pending = self.pending_confirmations.get(confirmation_id)
get_pending(pending, confirmation_id, user_id) ==
    IF confirmation_id \in DOMAIN pending
    THEN [found |-> TRUE, entry |-> pending[confirmation_id]]
    ELSE [found |-> FALSE, entry |-> NoRequest]

\* the user_id argument of the PortfolioService calls
ForUser(calls, user_id) ==
    [i \in DOMAIN calls |-> calls[i] @@ [user_id |-> user_id]]

\* a dict.pop(confirmation_id, None) in place of the del statement
del_pending_confirmation_pop(pending, confirmation_id) ==
    [raised |-> FALSE, pending |-> Without(pending, confirmation_id)]

\* del self.pending_confirmations[confirmation_id]: KeyError when the key
\* is not in the dict any more
del_pending_confirmation(pending, confirmation_id) ==
    IF confirmation_id \in DOMAIN pending
    THEN [raised |-> FALSE, pending |-> Without(pending, confirmation_id)]
    ELSE [raised |-> TRUE, pending |-> pending]

ConfirmStep(t, call, pending, calls) ==
    /\ threads' = [threads EXCEPT ![t] = call]
    /\ pending_confirmations' = pending
    /\ dbCalls' = dbCalls \o calls
    /\ UNCHANGED <<nextConf, session_storage, requests, cStage, cState,
                   cTrail, cSession, cFaults, cReply, cConfirm, resolved>>
    /\ UNCHANGED <<avars, svars, sessions, fvars>>

Answer(call, success, message) ==
    [call EXCEPT !.pc = "done",
                 !.result = [success |-> success, message |-> message,
                             portfolio_updated |-> success /\ call.confirmed]]

\* confirm_action calls process_confirmation
ConfirmCall(t) ==
    /\ threads[t].pc = "idle"
    /\ \E confirmation_id \in ConfIds, confirmed \in BOOLEAN,
          user_id \in UserIds :
          ConfirmStep(t, [NoConfirmCall EXCEPT
                             !.pc = "get",
                             !.confirmation_id = confirmation_id,
                             !.confirmed = confirmed,
                             !.user_id = user_id],
                      pending_confirmations, <<>>)

\* pending = self.pending_confirmations.get(confirmation_id), and the
\* return when nothing was found
ConfirmGet(t) ==
    /\ threads[t].pc = "get"
    /\ LET call == threads[t]
           got == get_pending(pending_confirmations, call.confirmation_id,
                              call.user_id)
       IN IF got.found
          THEN ConfirmStep(t, [call EXCEPT !.pc = "del",
                                           !.pending = got.entry],
                           pending_confirmations, <<>>)
          ELSE ConfirmStep(t, Answer(call, FALSE, NotFoundText),
                           pending_confirmations, <<>>)

\* del self.pending_confirmations[confirmation_id]; a KeyError goes to the
\* except clause of process_confirmation; a declined request returns here
ConfirmDel(t) ==
    /\ threads[t].pc = "del"
    /\ LET call == threads[t]
           r == del_pending_confirmation(pending_confirmations,
                                         call.confirmation_id)
       IN IF r.raised
          THEN ConfirmStep(t, Answer(call, FALSE, FailedText), r.pending, <<>>)
          ELSE IF ~call.confirmed
          THEN ConfirmStep(t, Answer([call EXCEPT !.removed = TRUE],
                                     TRUE, CancelledText),
                           r.pending, <<>>)
          ELSE ConfirmStep(t, [call EXCEPT !.pc = "execute",
                                           !.removed = TRUE],
                           r.pending, <<>>)

\* self._execute_portfolio_action(...) and the result built from it
ConfirmExecute(t) ==
    /\ threads[t].pc = "execute"
    /\ \E db \in DbOutcomes :
          LET call == threads[t]
              done == execute_portfolio_action(call.pending.request.action,
                                               call.pending.entities, db,
                                               call.confirmation_id)
          IN /\ done.calls = <<>> => db = "ok"
             /\ ConfirmStep(t, Answer([call EXCEPT !.made = Len(done.calls)],
                                      done.result.success,
                                      done.result.message),
                            pending_confirmations,
                            ForUser(done.calls, call.user_id))

KNext ==
    \/ StoreConfirmation
    \/ ClearSession
    \/ \E t \in Threads :
          \/ ConfirmCall(t)
          \/ ConfirmGet(t)
          \/ ConfirmDel(t)
          \/ ConfirmExecute(t)

SpecConfirm == KInit /\ [][KNext]_vars

\* C36: two process_confirmation calls for one confirmation id, their
\* statements interleaved in any order: the PortfolioService is called at
\* most once for that id; a call that did not remove the entry answers
\* "not found" or "failed", makes no PortfolioService call and leaves the
\* pending set and the calls made as they were.
C36_OneExecution ==
    /\ [](\A c \in ConfIds : Cardinality(CallsFor(c)) <= 1)
    /\ [](\A t \in Threads : \A u \in Threads \ {t} :
             (/\ threads[t].confirmation_id = threads[u].confirmation_id
              /\ threads[t].removed) => ~threads[u].removed)
    /\ [](\A t \in Threads :
             (threads[t].pc = "done" /\ ~threads[t].removed) =>
                /\ threads[t].result.message \in {NotFoundText, FailedText}
                /\ ~threads[t].result.success
                /\ threads[t].made = 0)
    /\ [][\A t \in Threads :
             (threads'[t] # threads[t] /\ ~threads'[t].removed) =>
                /\ pending_confirmations' = pending_confirmations
                /\ dbCalls' = dbCalls]_vars

C36_Witness ==
    /\ threads["t1"].pc = "done" /\ threads["t2"].pc = "done"
    /\ threads["t1"].confirmation_id = threads["t2"].confirmation_id
    /\ threads["t1"].pending # NoRequest
    /\ threads["t2"].pending # NoRequest
    /\ threads["t1"].made = 1
    /\ threads["t1"].result.success
    /\ threads["t2"].confirmed
    /\ threads["t2"].result.message = FailedText
    /\ Len(dbCalls) = 1

\* C37: accepting a pending confirmation makes at most one PortfolioService
\* call, and that call is about the asset of the first extracted entity;
\* whatever the number of entities, the confirmation is no longer pending
\* afterwards.
C37_FirstEntityOnly ==
    [][(/\ cStage = "idle" /\ cStage' = "replied"
        /\ cConfirm'.confirmed
        /\ cConfirm'.id \in DOMAIN pending_confirmations) =>
          LET entry == pending_confirmations[cConfirm'.id]
              first == create_asset_from_entity(entry.entities[1])
              made == SubSeq(dbCalls', Len(dbCalls) + 1, Len(dbCalls'))
          IN /\ Len(made) <= 1
             /\ \A i \in DOMAIN made :
                   IF made[i].op = "add_asset" THEN made[i].asset = first
                   ELSE /\ made[i].symbol = first.ident
                        /\ made[i].asset_type = first.type
             /\ cConfirm'.id \notin DOMAIN pending_confirmations']_vars

C37_Witness ==
    /\ cStage = "replied"
    /\ cConfirm.confirmed
    /\ cConfirm.calls = 1
    /\ cConfirm.id \notin DOMAIN pending_confirmations
    /\ Len(dbCalls) = 1
    /\ dbCalls[1].confirmation_id = cConfirm.id
    /\ dbCalls[1].op = "add_asset"
    /\ dbCalls[1].asset.type = "cash"

\* The walk left search_vector_db on the key "analyze"
SkipTaken ==
    /\ Len(aTrail) >= 2
    /\ should_search_news(aState) = "analyze"

\* C38: on the skip branch search_news and classify_news do not run, the
\* classified findings are still empty when analyze_assets runs, and every
\* analysis result carries an empty list of findings, whatever number of
\* cached hits justified the skip.
C38_SkipAnalyzesNothing ==
    SkipTaken =>
       /\ "search_news" \notin Range(aTrail)
       /\ "classify_news" \notin Range(aTrail)
       /\ aState.raw_news = <<>>
       /\ aState.classified_news = <<>>
       /\ \A i \in DOMAIN aState.analysis_results :
             aState.analysis_results[i].news_items = <<>>

C38_Witness ==
    /\ SkipTaken
    /\ aStage = "create_digest"
    /\ aTrail = SubSeq(SkipWalk, 1, 3)
    /\ aState.vector_context.found_items = 2 * VectorLimit
    /\ Len(aState.assets_to_analyze) = 2
    /\ Len(aState.analysis_results) = 2
    /\ aState.analysis_results[1].news_items = <<>>
    /\ aState.analysis_results[2].news_items = <<>>

\* C39: a turn whose graph walk raises makes one storage call, the get,
\* adds the user message to the session it works on and stores nothing.
\* After it the ephemeral store and the persistent store hold for the
\* session id exactly what they held before.
C39_FailedTurnLeavesStore ==
    [][(AddMessage /\ observed.op = "get") =>
          \A b \in {"ephemeral", "persistent"} :
             Held(storage'[b], SessionId) = Held(storage[b], SessionId)]_vars

\* C40: the PortfolioService call of an accepted confirmation is made for
\* the user id the caller of process_confirmation supplied; the lookup
\* finds every pending id whoever asks and whether or not the session of
\* the entry is still stored; clear_session leaves the pending set as it
\* was.
C40_CallerDecides ==
    /\ [](\A t \in Threads :
             threads[t].made = 1 =>
                \E i \in CallsFor(threads[t].confirmation_id) :
                   dbCalls[i].user_id = threads[t].user_id)
    /\ [][\A t \in Threads :
             (/\ threads[t].pc = "get" /\ threads'[t].pc # "get"
              /\ threads[t].confirmation_id \in DOMAIN pending_confirmations)
                => /\ threads'[t].pc = "del"
                   /\ threads'[t].pending =
                         pending_confirmations[threads[t].confirmation_id]]_vars
    /\ [][(session_storage.present /\ ~session_storage'.present) =>
             pending_confirmations' = pending_confirmations]_vars

C40_Witness ==
    LET call == threads["t1"]
    IN /\ call.pc = "done"
       /\ call.made = 1
       /\ call.result.success
       /\ call.result.portfolio_updated
       /\ call.pending.request.metadata.user_id = "u1"
       /\ call.user_id = "u2"
       /\ dbCalls[1].user_id = "u2"
       /\ nextConf = 1
       /\ ~session_storage.present
       /\ threads["t2"].pc = "idle"

====
